---- MODULE Spec2Model ----
(***************************************************************************)
(* SDRdaemon (receive side): the main thread, the output thread, the       *)
(* device activity and the signal handler of main.cpp, around the two      *)
(* DataBuffer<IQSample> queues (source_buffer, output_buffer), the UDP     *)
(* sink the output thread writes to, and a peer of the control port.       *)
(*                                                                         *)
(* A sample is the index of the sample in the ADC stream (1, 2, 3, ...);   *)
(* a sample vector is a sequence of samples.                               *)
(***************************************************************************)
EXTENDS Integers, Sequences, FiniteSets, TLC

\* ------------------------------------------------------------------ bounds
\* Total number of samples the device produces in a run.
MaxSamples == 3
\* Longest sample vector the device pushes in one call.
MaxVecLen == 2
\* Total number of samples fed to the sink when it is run on its own.
MaxPackSamples == 6
\* Largest number of FEC blocks of a frame given to the codec.
MaxFecBlocks == 2
\* Most devices of one type attached to the machine.
MaxDevices == 2
\* Most options on a command line given to main.
MaxArgs == 2
\* Longest sample vector given to a Downsampler run on its own.
MaxInLen == 65
\* The Tx window is fed frame indices this far before and after the wrap.
MaxTxSpan == 5

\* -------------------------------------------------- program constants
\* main.cpp:373 outputbuf_samples = 250000, handed to write_output_data as
\* buf_minfill; counted here in units of 125000 samples.
outputbuf_samples == 2
\* main.cpp:477 the overrun level 10 * ifrate, scaled to the sample counts
\* of a run so that the source buffer can pass it more than once.
inbuf_warn_level == 1
\* Downsampler.h:40 the decimation the daemon's Downsampler is built with.
m_decim == 0

Signals == {"SIGINT", "SIGTERM"}

VARIABLES
    stop_flag,              \* main.cpp:46 static std::atomic_bool stop_flag
    sigact,                 \* signals whose disposition is handle_sigterm
    mainpc,                 \* position of the main thread
    outpc,                  \* position of the output thread
    devstate,               \* state of the device activity
    startup_error,          \* which startup step failed, "none" if none
    source_buffer,          \* main.cpp:436
    output_buffer,          \* main.cpp:456
    adc,                    \* samples produced by the device so far
    block,                  \* main.cpp:473 loop counter (unsigned int)
    iqsamples,              \* main.cpp:484 local of the main loop
    inbuf_length_warning,   \* main.cpp:468
    warnings,               \* number of overrun warnings printed
    overrun_logged,         \* history: a warning was printed since the
                            \* source queue last rose above the level
    found_empty,            \* output thread: result of the test at line 68
    samples,                \* main.cpp:84 local of write_output_data
    sink_error,             \* UDPSink in error state after the last write
    written,                \* vectors handed to UDPSink::write, in order
    srcPushed,              \* history: vectors pushed into source_buffer
    srcPulled,              \* history: non-empty vectors main pulled
    outPushed,              \* history: vectors pushed into output_buffer
    stopSrcQ,               \* history: source queue when stop_flag was set
    stopOutQ,               \* history: output queue when stop_flag was set
    main_written,           \* vectors main handed to UDPSink::write (509)
    sink,                   \* UDPSink: samples accumulated, frame counter
    datagrams,              \* blocks the sink handed to its socket, in order
    sink_sent,              \* number of blocks sent since the sink was built
    ctrl_sent,              \* messages a peer has sent to the control port
    ctrl_replies,           \* messages the daemon has sent to that peer
    discarded,              \* history: blocks main pulled and threw away
    destroyed,              \* history: destructor runs per object of main
    dn,                     \* a Downsampler and one call of its process
    opts,                   \* main's option loop (283-354) on one argv
    dev,                    \* one call of get_device (215-281)
    svc,                    \* one run of service/sdrdaemonrx_opensuse
    fec,                    \* one frame through the FEC encoder and decoder
    txw                     \* the Tx side's window of frames

vars == << stop_flag, sigact, mainpc, outpc, devstate, startup_error,
           source_buffer, output_buffer, adc, block, iqsamples,
           inbuf_length_warning, warnings, found_empty, samples, sink_error,
           written, srcPushed, srcPulled, outPushed, stopSrcQ, stopOutQ,
           overrun_logged, main_written, sink, datagrams, sink_sent,
           ctrl_sent, ctrl_replies, discarded, destroyed, dn, opts, dev, svc, fec,
           txw >>

mainVars == << mainpc, startup_error, block, iqsamples, inbuf_length_warning,
               warnings, srcPulled, outPushed >>
sinkVars == << sink, datagrams, sink_sent >>
outVars  == << outpc, found_empty, samples, sink_error, written,
               main_written, sinkVars >>
ctlVars  == << ctrl_sent, ctrl_replies >>
\* The parts of the program that are run on their own, each by its own
\* specification.
compVars == << dn, opts, dev, svc, fec, txw >>
sigVars  == << stop_flag, sigact, stopSrcQ, stopOutQ >>
devVars  == << devstate, adc, srcPushed, overrun_logged >>

\* ------------------------------------------------- DataBuffer<IQSample>
EmptyBuffer == [queue |-> << >>, qlen |-> 0, end_marked |-> FALSE]

\* Faulty variant of push: a vector that would take the queue past the
\* overrun level is dropped.
push_dropping(b, v) ==
    IF b.qlen + Len(v) > inbuf_warn_level THEN b
    ELSE [b EXCEPT !.queue = Append(@, v), !.qlen = @ + Len(v)]

\* push(vector): appends, never waits, never drops.
push(b, v) == [b EXCEPT !.queue = Append(@, v), !.qlen = @ + Len(v)]

\* push_end(): marks the end of the stream.
push_end(b) == [b EXCEPT !.end_marked = TRUE]

\* queued_samples(): the count in samples, not vectors.
queued_samples(b) == b.qlen

\* pull() returns once a vector is queued or the end is marked.
pull_ready(b) == b.queue # << >> \/ b.end_marked

\* what pull() returns: the oldest vector, or an empty vector at the end.
pull_value(b) == IF b.queue # << >> THEN Head(b.queue) ELSE << >>

\* Faulty variant of pull: the newest vector leaves the queue instead of
\* the oldest.
pull_newest(b) ==
    IF b.queue # << >>
    THEN [b EXCEPT !.queue = SubSeq(@, 1, Len(@) - 1),
                   !.qlen = @ - Len(Head(b.queue))]
    ELSE b

\* the buffer after pull().
pull(b) ==
    IF b.queue # << >>
    THEN [b EXCEPT !.queue = Tail(@), !.qlen = @ - Len(Head(b.queue))]
    ELSE b

\* pull_end_reached(): nothing queued and the end marked.
pull_end_reached(b) == b.qlen = 0 /\ b.end_marked

\* wait_buffer_fill(minfill) returns once this holds.
wait_buffer_fill(b, minfill) == b.qlen >= minfill \/ b.end_marked

\* ------------------------------------------------------------ Downsampler
Pow2(n) == IF n = 0 THEN 1 ELSE IF n = 1 THEN 2 ELSE IF n = 2 THEN 4
           ELSE IF n = 3 THEN 8 ELSE IF n = 4 THEN 16 ELSE IF n = 5 THEN 32
           ELSE 64

\* Faulty variant of process: a last, incomplete group of samples still
\* gives an output sample.
process_round(samples_in, decim) ==
    [i \in 1..((Len(samples_in) + Pow2(decim) - 1) \div Pow2(decim)) |->
        samples_in[IF i * Pow2(decim) <= Len(samples_in)
                   THEN i * Pow2(decim) ELSE Len(samples_in)]]

\* process(in, out): len(out) = len(in) >> decim; decim = 0 passes through.
process(samples_in, decim) ==
    [i \in 1..(Len(samples_in) \div Pow2(decim)) |-> samples_in[i * Pow2(decim)]]

\* ------------------------------------------------- unsigned int (32 bits)
\* The loop counter is kept as two 16-bit halves, so that it wraps at 2^32.
Half == 65536

UintZero == [hi |-> 0, lo |-> 0]

UintPositive(u) == u.hi # 0 \/ u.lo # 0

UintInc(u) ==
    IF u.lo + 1 < Half THEN [u EXCEPT !.lo = @ + 1]
    ELSE [hi |-> (u.hi + 1) % Half, lo |-> 0]

\* ---------------------------------------------------------------- UDPSink
\* The frame geometry, scaled: a frame is one meta block (block 0),
\* nbSampleBlocks sample blocks (127 in the program) of samplesPerBlock
\* samples each (127) and nbFecBlocks redundancy blocks (0..127).
nbSampleBlocks == 2
samplesPerBlock == 1
nbFecBlocks == 1
\* The frame count is a 2-byte field.
FrameCountWrap == 65536

FrameSamples == nbSampleBlocks * samplesPerBlock
BlocksPerFrame == 1 + nbSampleBlocks + nbFecBlocks

\* The sink as constructed: nothing accumulated, frame count 0.
NewSink == [acc |-> << >>, frame |-> 0]

\* The blocks of frame f carrying the samples smp, in block order.
FrameBlocks(f, smp) ==
    << [frame |-> f, block |-> 0, kind |-> "meta", body |-> << >>] >>
    \o [b \in 1..nbSampleBlocks |->
           [frame |-> f, block |-> b, kind |-> "samples",
            body |-> SubSeq(smp, (b - 1) * samplesPerBlock + 1,
                                 b * samplesPerBlock)]]
    \o [k \in 1..nbFecBlocks |->
           [frame |-> f, block |-> nbSampleBlocks + k, kind |-> "fec",
            body |-> << >>]]

\* Faulty variant of NextFrame: the frame count is not reduced to 2 bytes.
NextFrame_NoWrap(f) == f + 1

\* The frame count after frame f.
NextFrame(f) == (f + 1) % FrameCountWrap

RECURSIVE EmitFrames(_, _)
\* Every whole frame accumulated in st leaves as its blocks; out collects
\* the blocks sent.
EmitFrames(st, out) ==
    IF Len(st.acc) >= FrameSamples
    THEN EmitFrames([acc |-> SubSeq(st.acc, FrameSamples + 1, Len(st.acc)),
                     frame |-> NextFrame(st.frame)],
                    out \o FrameBlocks(st.frame,
                                       SubSeq(st.acc, 1, FrameSamples)))
    ELSE [sink |-> st, out |-> out]

\* Faulty variant of write: what is left of the vector after the whole
\* frames is filled up with zero samples and sent as a frame.
write_padding(st, v) ==
    LET r == EmitFrames([st EXCEPT !.acc = @ \o v], << >>)
        n == Len(r.sink.acc)
    IN  IF n = 0 THEN r
        ELSE [sink |-> [acc |-> << >>, frame |-> NextFrame(r.sink.frame)],
              out |-> r.out \o FrameBlocks(r.sink.frame,
                          r.sink.acc \o [i \in 1..(FrameSamples - n) |-> 0])]

\* write(samples): the samples are accumulated and every frame they
\* complete is sent; the result is the sink afterwards and the blocks sent.
write(st, v) == EmitFrames([st EXCEPT !.acc = @ \o v], << >>)

\* ------------------------------------------------------------------- Init
\* A part that is not run in the specification at hand.
NoCall == [pc |-> "none"]

\* The objects of main that own a resource: the UDP sink (394), the device
\* source (440) and the two sample buffers (436, 456).
Objects == {"udp_output_instance", "srcsdr", "source_buffer", "output_buffer"}

\* No destructor has run.
NoneDestroyed == [o \in Objects |-> 0]

\* The daemon's own variables before main has run.
DaemonIdle ==
    /\ stop_flag = FALSE
    /\ sigact = Signals
    /\ mainpc = "open_sink"
    /\ outpc = "none"
    /\ devstate = "none"
    /\ startup_error = "none"
    /\ source_buffer = EmptyBuffer
    /\ output_buffer = EmptyBuffer
    /\ adc = 0
    /\ block = UintZero
    /\ iqsamples = << >>
    /\ inbuf_length_warning = FALSE
    /\ warnings = 0
    /\ found_empty = FALSE
    /\ samples = << >>
    /\ sink_error = FALSE
    /\ written = << >>
    /\ srcPushed = << >>
    /\ srcPulled = << >>
    /\ outPushed = << >>
    /\ stopSrcQ = << >>
    /\ stopOutQ = << >>
    /\ overrun_logged = FALSE
    /\ main_written = << >>
    /\ sink = NewSink
    /\ datagrams = << >>
    /\ sink_sent = 0
    /\ ctrl_sent = {}
    /\ ctrl_replies = << >>
    /\ discarded = 0
    /\ destroyed = NoneDestroyed

CompIdle ==
    /\ dn = NoCall
    /\ opts = NoCall
    /\ dev = NoCall
    /\ svc = NoCall
    /\ fec = NoCall
    /\ txw = NoCall

Init ==
    /\ stop_flag = FALSE
    /\ sigact = Signals
    /\ mainpc = "open_sink"
    /\ outpc = "none"
    /\ devstate = "none"
    /\ startup_error = "none"
    /\ source_buffer = EmptyBuffer
    /\ output_buffer = EmptyBuffer
    /\ adc = 0
    /\ block = UintZero
    /\ iqsamples = << >>
    /\ inbuf_length_warning = FALSE
    /\ warnings = 0
    /\ found_empty = FALSE
    /\ samples = << >>
    /\ sink_error = FALSE
    /\ written = << >>
    /\ srcPushed = << >>
    /\ srcPulled = << >>
    /\ outPushed = << >>
    /\ stopSrcQ = << >>
    /\ stopOutQ = << >>
    /\ overrun_logged = FALSE
    /\ main_written = << >>
    /\ sink = NewSink
    /\ datagrams = << >>
    /\ sink_sent = 0
    /\ ctrl_sent = {}
    /\ ctrl_replies = << >>
    /\ discarded = 0
    /\ destroyed = NoneDestroyed
    /\ CompIdle

\* -------------------------------------------- a call of UDPSink::write
\* output->write(v) (85, 509): the sink may end in its error state.
SinkWrite(v) ==
    /\ sink' = write(sink, v).sink
    /\ datagrams' = datagrams \o write(sink, v).out
    /\ sink_sent' = sink_sent + Len(write(sink, v).out)
    /\ sink_error' \in BOOLEAN

\* ------------------------------------------------ signal handler (96-106)
\* Faulty variant of handle_sigterm: the handler flips the flag.
handle_sigterm_toggle(sig) ==
    /\ sig \in sigact
    /\ sigact' = sigact \ {sig}
    /\ stop_flag' = ~stop_flag
    /\ stopSrcQ' = IF stop_flag THEN stopSrcQ ELSE source_buffer.queue
    /\ stopOutQ' = IF stop_flag THEN stopOutQ ELSE output_buffer.queue
    /\ UNCHANGED << mainVars, outVars, devVars, source_buffer, output_buffer >>
    /\ UNCHANGED ctlVars
    /\ UNCHANGED compVars
    /\ UNCHANGED << discarded, destroyed >>

\* SA_RESETHAND (line 360): the handler serves each signal once.
handle_sigterm(sig) ==
    /\ sig \in sigact
    /\ sigact' = sigact \ {sig}
    /\ stop_flag' = TRUE
    /\ stopSrcQ' = IF stop_flag THEN stopSrcQ ELSE source_buffer.queue
    /\ stopOutQ' = IF stop_flag THEN stopOutQ ELSE output_buffer.queue
    /\ UNCHANGED << mainVars, outVars, devVars, source_buffer, output_buffer >>
    /\ UNCHANGED ctlVars
    /\ UNCHANGED compVars
    /\ UNCHANGED << discarded, destroyed >>

\* ----------------------------------------------------- main: startup
\* 393-401: UDPSink udp_output_instance(dataport); exit(1) if it is in error.
MainOpenSink ==
    /\ mainpc = "open_sink"
    /\ \E ok \in BOOLEAN :
         IF ok THEN mainpc' = "get_device" /\ UNCHANGED startup_error
               ELSE mainpc' = "exit1" /\ startup_error' = "sink"
    /\ UNCHANGED << block, iqsamples, inbuf_length_warning, warnings,
                    srcPulled, outPushed >>
    /\ UNCHANGED << outVars, sigVars, devVars, source_buffer, output_buffer >>
    /\ UNCHANGED ctlVars
    /\ UNCHANGED compVars
    /\ UNCHANGED << discarded, destroyed >>

\* 403-406 with get_device (215-281): an unknown device type or an index
\* outside the device list returns false before any Source is created.
MainGetDevice ==
    /\ mainpc = "get_device"
    /\ \E r \in {"ok", "devtype", "devidx"} :
         IF r = "ok"
         THEN mainpc' = "check_source" /\ devstate' = "created"
              /\ UNCHANGED startup_error
         ELSE mainpc' = "exit1" /\ startup_error' = r /\ UNCHANGED devstate
    /\ UNCHANGED << block, iqsamples, inbuf_length_warning, warnings,
                    srcPulled, outPushed, adc, srcPushed,
                    overrun_logged >>
    /\ UNCHANGED << outVars, sigVars, source_buffer, output_buffer >>
    /\ UNCHANGED ctlVars
    /\ UNCHANGED compVars
    /\ UNCHANGED << discarded, destroyed >>

\* 408-413: the Source could not open the device: delete it, exit(1).
MainCheckSource ==
    /\ mainpc = "check_source"
    /\ \E ok \in BOOLEAN :
         IF ok THEN mainpc' = "configure" /\ UNCHANGED << startup_error, devstate >>
               ELSE mainpc' = "exit1" /\ startup_error' = "open"
                    /\ devstate' = "deleted"
    /\ UNCHANGED << block, iqsamples, inbuf_length_warning, warnings,
                    srcPulled, outPushed, adc, srcPushed,
                    overrun_logged >>
    /\ UNCHANGED << outVars, sigVars, source_buffer, output_buffer >>
    /\ UNCHANGED ctlVars
    /\ UNCHANGED compVars
    /\ UNCHANGED << discarded, destroyed >>

\* 416-422: srcsdr->configure(config_str) rejected: delete, exit(1).
MainConfigure ==
    /\ mainpc = "configure"
    /\ \E ok \in BOOLEAN :
         IF ok THEN mainpc' = "start_source" /\ UNCHANGED << startup_error, devstate >>
               ELSE mainpc' = "exit1" /\ startup_error' = "config"
                    /\ devstate' = "deleted"
    /\ UNCHANGED << block, iqsamples, inbuf_length_warning, warnings,
                    srcPulled, outPushed, adc, srcPushed,
                    overrun_logged >>
    /\ UNCHANGED << outVars, sigVars, source_buffer, output_buffer >>
    /\ UNCHANGED ctlVars
    /\ UNCHANGED compVars
    /\ UNCHANGED << discarded, destroyed >>

\* 435-450: up_srcsdr->start(&source_buffer, &stop_flag); its result is
\* dropped and the test that follows is on the unique_ptr, which is never
\* null here, so the exit(1) of line 449 is not taken.
MainStartSource ==
    /\ mainpc = "start_source"
    /\ \E ok \in BOOLEAN :
         IF ok THEN devstate' = "running" /\ UNCHANGED startup_error
               ELSE devstate' = "start_failed" /\ startup_error' = "start"
    /\ mainpc' = "spawn_output"
    /\ UNCHANGED << block, iqsamples, inbuf_length_warning, warnings,
                    srcPulled, outPushed, adc, srcPushed,
                    overrun_logged >>
    /\ UNCHANGED << outVars, sigVars, source_buffer, output_buffer >>
    /\ UNCHANGED ctlVars
    /\ UNCHANGED compVars
    /\ UNCHANGED << discarded, destroyed >>

\* 452-470: with outputbuf_samples > 0 the output thread is started.
MainSpawnOutput ==
    /\ mainpc = "spawn_output"
    /\ mainpc' = "loop_check"
    /\ IF outputbuf_samples > 0 THEN outpc' = "check_stop"
                                ELSE UNCHANGED outpc
    /\ UNCHANGED << startup_error, block, iqsamples, inbuf_length_warning,
                    warnings, srcPulled, outPushed >>
    /\ UNCHANGED << found_empty, samples, sink_error, written,
                    main_written, sinkVars >>
    /\ UNCHANGED << sigVars, devVars, source_buffer, output_buffer >>
    /\ UNCHANGED ctlVars
    /\ UNCHANGED compVars
    /\ UNCHANGED << discarded, destroyed >>

\* ---------------------------------------------------- main: the loop
\* 473: for (unsigned int block = 0; !stop_flag.load(); block++)
MainLoopCheck ==
    /\ mainpc = "loop_check"
    /\ mainpc' = IF stop_flag THEN "stop_source" ELSE "check_overflow"
    /\ UNCHANGED << startup_error, block, iqsamples, inbuf_length_warning,
                    warnings, srcPulled, outPushed >>
    /\ UNCHANGED << outVars, sigVars, devVars, source_buffer, output_buffer >>
    /\ UNCHANGED ctlVars
    /\ UNCHANGED compVars
    /\ UNCHANGED << discarded, destroyed >>

\* Faulty variant of MainCheckOverflow: inbuf_length_warning is not looked
\* at, so the warning is printed at every test that finds the queue above
\* the level.
MainCheckOverflow_NoLatch ==
    /\ mainpc = "check_overflow"
    /\ IF queued_samples(source_buffer) > inbuf_warn_level
       THEN /\ inbuf_length_warning' = TRUE
            /\ warnings' = warnings + 1
            /\ overrun_logged' = TRUE
       ELSE UNCHANGED << inbuf_length_warning, warnings, overrun_logged >>
    /\ mainpc' = "pull"
    /\ UNCHANGED << startup_error, block, iqsamples, srcPulled, outPushed >>
    /\ UNCHANGED << devstate, adc, srcPushed >>
    /\ UNCHANGED << outVars, sigVars, source_buffer, output_buffer >>
    /\ UNCHANGED ctlVars
    /\ UNCHANGED compVars
    /\ UNCHANGED << discarded, destroyed >>

\* 476-481: the overrun warning; inbuf_length_warning is set with the first
\* warning and never cleared.
MainCheckOverflow ==
    /\ mainpc = "check_overflow"
    /\ IF ~inbuf_length_warning /\ queued_samples(source_buffer) > inbuf_warn_level
       THEN /\ inbuf_length_warning' = TRUE
            /\ warnings' = warnings + 1
            /\ overrun_logged' = TRUE
       ELSE UNCHANGED << inbuf_length_warning, warnings, overrun_logged >>
    /\ mainpc' = "pull"
    /\ UNCHANGED << startup_error, block, iqsamples, srcPulled, outPushed >>
    /\ UNCHANGED << devstate, adc, srcPushed >>
    /\ UNCHANGED << outVars, sigVars, source_buffer, output_buffer >>
    /\ UNCHANGED ctlVars
    /\ UNCHANGED compVars
    /\ UNCHANGED << discarded, destroyed >>

\* Faulty variant of MainPull: an empty vector does not leave the loop.
MainPull_NoBreak ==
    /\ mainpc = "pull"
    /\ pull_ready(source_buffer)
    /\ iqsamples' = pull_value(source_buffer)
    /\ source_buffer' = pull(source_buffer)
    /\ IF pull_value(source_buffer) = << >>
       THEN mainpc' = "loop_check" /\ UNCHANGED srcPulled
       ELSE mainpc' = "process"
            /\ srcPulled' = Append(srcPulled, pull_value(source_buffer))
    /\ UNCHANGED << startup_error, block, inbuf_length_warning, warnings,
                    outPushed >>
    /\ UNCHANGED << outVars, sigVars, devVars, output_buffer >>
    /\ UNCHANGED ctlVars
    /\ UNCHANGED compVars
    /\ UNCHANGED << discarded, destroyed >>

\* 483-489: IQSampleVector iqsamples = source_buffer.pull(); break if empty.
MainPull ==
    /\ mainpc = "pull"
    /\ pull_ready(source_buffer)
    /\ iqsamples' = pull_value(source_buffer)
    /\ source_buffer' = pull(source_buffer)
    /\ IF pull_value(source_buffer) = << >>
       THEN mainpc' = "stop_source" /\ UNCHANGED srcPulled
       ELSE mainpc' = "process"
            /\ srcPulled' = Append(srcPulled, pull_value(source_buffer))
    /\ UNCHANGED << startup_error, block, inbuf_length_warning, warnings,
                    outPushed >>
    /\ UNCHANGED << outVars, sigVars, devVars, output_buffer >>
    /\ UNCHANGED ctlVars
    /\ UNCHANGED compVars
    /\ UNCHANGED << discarded, destroyed >>

\* Faulty variant of MainProcess: the direct write is taken although the
\* output thread was started.
MainProcess_Direct ==
    /\ mainpc = "process"
    /\ IF UintPositive(block)
       THEN /\ main_written' = Append(main_written, process(iqsamples, m_decim))
            /\ SinkWrite(process(iqsamples, m_decim))
            /\ UNCHANGED << output_buffer, outPushed >>
       ELSE UNCHANGED << output_buffer, outPushed, sink_error,
                         main_written, sinkVars >>
    /\ block' = UintInc(block)
    /\ iqsamples' = << >>
    /\ mainpc' = "loop_check"
    /\ UNCHANGED << startup_error, inbuf_length_warning, warnings, srcPulled >>
    /\ UNCHANGED << outpc, found_empty, samples, written >>
    /\ UNCHANGED << sigVars, devVars, source_buffer >>
    /\ UNCHANGED ctlVars
    /\ UNCHANGED compVars
    /\ discarded' = IF UintPositive(block) THEN discarded
                                            ELSE discarded + 1
    /\ UNCHANGED destroyed

\* 491-511 and the block++ of 473: downsample; the first block is thrown
\* away; every later one is pushed into output_buffer when the output is
\* buffered (outputbuf_samples > 0) and written by main itself otherwise.
MainProcess ==
    /\ mainpc = "process"
    /\ IF UintPositive(block)
       THEN IF outputbuf_samples > 0
            THEN /\ output_buffer' =
                        push(output_buffer, process(iqsamples, m_decim))
                 /\ outPushed' = Append(outPushed, process(iqsamples, m_decim))
                 /\ UNCHANGED << sink_error, main_written, sinkVars >>
            ELSE /\ main_written' =
                        Append(main_written, process(iqsamples, m_decim))
                 /\ SinkWrite(process(iqsamples, m_decim))
                 /\ UNCHANGED << output_buffer, outPushed >>
       ELSE UNCHANGED << output_buffer, outPushed, sink_error,
                         main_written, sinkVars >>
    /\ block' = UintInc(block)
    /\ iqsamples' = << >>
    /\ mainpc' = "loop_check"
    /\ UNCHANGED << startup_error, inbuf_length_warning, warnings, srcPulled >>
    /\ UNCHANGED << outpc, found_empty, samples, written >>
    /\ UNCHANGED << sigVars, devVars, source_buffer >>
    /\ UNCHANGED ctlVars
    /\ UNCHANGED compVars
    /\ discarded' = IF UintPositive(block) THEN discarded
                                            ELSE discarded + 1
    /\ UNCHANGED destroyed

\* --------------------------------------------------- main: shutdown
\* 518: up_srcsdr->stop()
MainStopSource ==
    /\ mainpc = "stop_source"
    /\ devstate' = "stopped"
    /\ mainpc' = "push_end"
    /\ UNCHANGED << startup_error, block, iqsamples, inbuf_length_warning,
                    warnings, srcPulled, outPushed, adc, srcPushed,
                    overrun_logged >>
    /\ UNCHANGED << outVars, sigVars, source_buffer, output_buffer >>
    /\ UNCHANGED ctlVars
    /\ UNCHANGED compVars
    /\ UNCHANGED << discarded, destroyed >>

\* Faulty variant of MainPushEnd: the end of the stream is not signalled.
MainPushEnd_Skip ==
    /\ mainpc = "push_end"
    /\ output_buffer' = output_buffer
    /\ mainpc' = "join"
    /\ UNCHANGED << startup_error, block, iqsamples, inbuf_length_warning,
                    warnings, srcPulled, outPushed >>
    /\ UNCHANGED << outVars, sigVars, devVars, source_buffer >>
    /\ UNCHANGED ctlVars
    /\ UNCHANGED compVars
    /\ UNCHANGED << discarded, destroyed >>

\* 520-522: if (outputbuf_samples > 0) output_buffer.push_end()
MainPushEnd ==
    /\ mainpc = "push_end"
    /\ output_buffer' = IF outputbuf_samples > 0 THEN push_end(output_buffer)
                                                 ELSE output_buffer
    /\ mainpc' = "join"
    /\ UNCHANGED << startup_error, block, iqsamples, inbuf_length_warning,
                    warnings, srcPulled, outPushed >>
    /\ UNCHANGED << outVars, sigVars, devVars, source_buffer >>
    /\ UNCHANGED ctlVars
    /\ UNCHANGED compVars
    /\ UNCHANGED << discarded, destroyed >>

\* Faulty variant of MainJoin: main goes on without waiting for the thread.
MainJoin_NoWait ==
    /\ mainpc = "join"
    /\ mainpc' = "return"
    /\ UNCHANGED << startup_error, block, iqsamples, inbuf_length_warning,
                    warnings, srcPulled, outPushed >>
    /\ UNCHANGED << outVars, sigVars, devVars, source_buffer, output_buffer >>
    /\ UNCHANGED ctlVars
    /\ UNCHANGED compVars
    /\ UNCHANGED << discarded, destroyed >>

\* 520-523: if (outputbuf_samples > 0) output_thread.join()
MainJoin ==
    /\ mainpc = "join"
    /\ outputbuf_samples > 0 => outpc = "done"
    /\ mainpc' = "return"
    /\ UNCHANGED << startup_error, block, iqsamples, inbuf_length_warning,
                    warnings, srcPulled, outPushed >>
    /\ UNCHANGED << outVars, sigVars, devVars, source_buffer, output_buffer >>
    /\ UNCHANGED ctlVars
    /\ UNCHANGED compVars
    /\ UNCHANGED << discarded, destroyed >>

\* 528: return 0
MainReturn ==
    /\ mainpc = "return"
    /\ mainpc' = "destruct"
    /\ UNCHANGED << startup_error, block, iqsamples, inbuf_length_warning,
                    warnings, srcPulled, outPushed >>
    /\ UNCHANGED << outVars, sigVars, devVars, source_buffer, output_buffer >>
    /\ UNCHANGED ctlVars
    /\ UNCHANGED compVars
    /\ UNCHANGED << discarded, destroyed >>

\* 529 with 394-395, 436-440, 456: the destructors run, last declared
\* first: output_buffer, up_srcsdr (which deletes the source),
\* source_buffer, then udp_output, a unique_ptr that holds the address of
\* the automatic udp_output_instance. Its delete runs ~UDPSink and hands a
\* stack address to operator delete, which is undefined: either the
\* allocator aborts the process there, or it returns and the destructor of
\* udp_output_instance itself runs ~UDPSink a second time before the
\* process ends with status 0.
MainDestruct ==
    /\ mainpc = "destruct"
    /\ \E outcome \in {"exit0", "abort"} :
         /\ mainpc' = outcome
         /\ destroyed' = [o \in Objects |->
                IF o = "udp_output_instance"
                THEN (IF outcome = "abort" THEN destroyed[o] + 1
                                           ELSE destroyed[o] + 2)
                ELSE destroyed[o] + 1]
    /\ UNCHANGED << startup_error, block, iqsamples, inbuf_length_warning,
                    warnings, srcPulled, outPushed >>
    /\ UNCHANGED << outVars, sigVars, devVars, source_buffer, output_buffer >>
    /\ UNCHANGED ctlVars
    /\ UNCHANGED compVars
    /\ UNCHANGED discarded

Main ==
    \/ MainOpenSink \/ MainGetDevice \/ MainCheckSource \/ MainConfigure
    \/ MainStartSource \/ MainSpawnOutput
    \/ MainLoopCheck \/ MainCheckOverflow \/ MainPull \/ MainProcess
    \/ MainStopSource \/ MainPushEnd \/ MainJoin \/ MainReturn \/ MainDestruct

\* -------------------------------- output thread: write_output_data (62-92)
\* 66: while (!stop_flag.load())
OutCheckStop ==
    /\ outpc = "check_stop"
    /\ outpc' = IF stop_flag THEN "done" ELSE "check_fill"
    /\ UNCHANGED << found_empty, samples, sink_error, written,
                    main_written, sinkVars >>
    /\ UNCHANGED << mainVars, sigVars, devVars, source_buffer, output_buffer >>
    /\ UNCHANGED ctlVars
    /\ UNCHANGED compVars
    /\ UNCHANGED << discarded, destroyed >>

\* Faulty variant of OutCheckFill: the wait on an empty buffer is skipped.
OutCheckFill_NoWait ==
    /\ outpc = "check_fill"
    /\ found_empty' = (queued_samples(output_buffer) = 0)
    /\ outpc' = "check_end"
    /\ UNCHANGED << samples, sink_error, written,
                    main_written, sinkVars >>
    /\ UNCHANGED << mainVars, sigVars, devVars, source_buffer, output_buffer >>
    /\ UNCHANGED ctlVars
    /\ UNCHANGED compVars
    /\ UNCHANGED << discarded, destroyed >>

\* 68: if (buf->queued_samples() == 0)
OutCheckFill ==
    /\ outpc = "check_fill"
    /\ found_empty' = (queued_samples(output_buffer) = 0)
    /\ outpc' = IF queued_samples(output_buffer) = 0 THEN "wait_fill"
                                                     ELSE "check_end"
    /\ UNCHANGED << samples, sink_error, written,
                    main_written, sinkVars >>
    /\ UNCHANGED << mainVars, sigVars, devVars, source_buffer, output_buffer >>
    /\ UNCHANGED ctlVars
    /\ UNCHANGED compVars
    /\ UNCHANGED << discarded, destroyed >>

\* Faulty variant of OutWaitFill: the wait returns on any push, before the
\* fill level is reached.
OutWaitFill_Spurious ==
    /\ outpc = "wait_fill"
    /\ wait_buffer_fill(output_buffer, 1)
    /\ outpc' = "check_end"
    /\ UNCHANGED << found_empty, samples, sink_error, written,
                    main_written, sinkVars >>
    /\ UNCHANGED << mainVars, sigVars, devVars, source_buffer, output_buffer >>
    /\ UNCHANGED ctlVars
    /\ UNCHANGED compVars
    /\ UNCHANGED << discarded, destroyed >>

\* 74: buf->wait_buffer_fill(buf_minfill)
OutWaitFill ==
    /\ outpc = "wait_fill"
    /\ wait_buffer_fill(output_buffer, outputbuf_samples)
    /\ outpc' = "check_end"
    /\ UNCHANGED << found_empty, samples, sink_error, written,
                    main_written, sinkVars >>
    /\ UNCHANGED << mainVars, sigVars, devVars, source_buffer, output_buffer >>
    /\ UNCHANGED ctlVars
    /\ UNCHANGED compVars
    /\ UNCHANGED << discarded, destroyed >>

\* Faulty variant of OutCheckEnd: the loop is left as soon as the end is
\* marked, with vectors still queued.
OutCheckEnd_EndOnly ==
    /\ outpc = "check_end"
    /\ outpc' = IF output_buffer.end_marked THEN "done" ELSE "pull"
    /\ UNCHANGED << found_empty, samples, sink_error, written,
                    main_written, sinkVars >>
    /\ UNCHANGED << mainVars, sigVars, devVars, source_buffer, output_buffer >>
    /\ UNCHANGED ctlVars
    /\ UNCHANGED compVars
    /\ UNCHANGED << discarded, destroyed >>

\* Faulty variant of OutCheckEnd: the end of the stream is not tested
\* before the pull.
OutCheckEnd_NoTest ==
    /\ outpc = "check_end"
    /\ outpc' = "pull"
    /\ UNCHANGED << found_empty, samples, sink_error, written,
                    main_written, sinkVars >>
    /\ UNCHANGED << mainVars, sigVars, devVars, source_buffer, output_buffer >>
    /\ UNCHANGED ctlVars
    /\ UNCHANGED compVars
    /\ UNCHANGED << discarded, destroyed >>

\* 77-81: if (buf->pull_end_reached()) break;
OutCheckEnd ==
    /\ outpc = "check_end"
    /\ outpc' = IF pull_end_reached(output_buffer) THEN "done" ELSE "pull"
    /\ UNCHANGED << found_empty, samples, sink_error, written,
                    main_written, sinkVars >>
    /\ UNCHANGED << mainVars, sigVars, devVars, source_buffer, output_buffer >>
    /\ UNCHANGED ctlVars
    /\ UNCHANGED compVars
    /\ UNCHANGED << discarded, destroyed >>

\* Faulty variant of OutPull: the thread was handed the source buffer and
\* pulls from it.
OutPull_FromSource ==
    /\ outpc = "pull"
    /\ pull_ready(source_buffer)
    /\ samples' = pull_value(source_buffer)
    /\ source_buffer' = pull(source_buffer)
    /\ outpc' = "write"
    /\ UNCHANGED << found_empty, sink_error, written,
                    main_written, sinkVars >>
    /\ UNCHANGED << mainVars, sigVars, devVars, output_buffer >>
    /\ UNCHANGED ctlVars
    /\ UNCHANGED compVars
    /\ UNCHANGED << discarded, destroyed >>

\* 84: IQSampleVector samples = buf->pull(); buf is &output_buffer (463).
OutPull ==
    /\ outpc = "pull"
    /\ pull_ready(output_buffer)
    /\ samples' = pull_value(output_buffer)
    /\ output_buffer' = pull(output_buffer)
    /\ outpc' = "write"
    /\ UNCHANGED << found_empty, sink_error, written,
                    main_written, sinkVars >>
    /\ UNCHANGED << mainVars, sigVars, devVars, source_buffer >>
    /\ UNCHANGED ctlVars
    /\ UNCHANGED compVars
    /\ UNCHANGED << discarded, destroyed >>

\* Faulty variant of OutWrite: a write that fails is tried once more.
OutWrite_Retry ==
    /\ outpc = "write"
    /\ \E failed \in BOOLEAN :
         written' = IF failed THEN Append(Append(written, samples), samples)
                              ELSE Append(written, samples)
    /\ SinkWrite(samples)
    /\ samples' = << >>
    /\ outpc' = "check_stop"
    /\ UNCHANGED << found_empty, main_written >>
    /\ UNCHANGED << mainVars, sigVars, devVars, source_buffer, output_buffer >>
    /\ UNCHANGED ctlVars
    /\ UNCHANGED compVars
    /\ UNCHANGED << discarded, destroyed >>

\* 85-90: output->write(samples); an error of the sink is only reported.
OutWrite ==
    /\ outpc = "write"
    /\ written' = Append(written, samples)
    /\ SinkWrite(samples)
    /\ samples' = << >>
    /\ outpc' = "check_stop"
    /\ UNCHANGED << found_empty, main_written >>
    /\ UNCHANGED << mainVars, sigVars, devVars, source_buffer, output_buffer >>
    /\ UNCHANGED ctlVars
    /\ UNCHANGED compVars
    /\ UNCHANGED << discarded, destroyed >>

Output ==
    \/ OutCheckStop \/ OutCheckFill \/ OutWaitFill \/ OutCheckEnd
    \/ OutPull \/ OutWrite

\* ------------------------------------------------------- device activity
\* The driver hands a block of 1..MaxVecLen new samples to the source
\* buffer it was started with.
DevicePush ==
    /\ devstate = "running"
    /\ \E n \in 1..MaxVecLen :
         /\ adc + n <= MaxSamples
         /\ source_buffer' = push(source_buffer, [i \in 1..n |-> adc + i])
         /\ srcPushed' = Append(srcPushed, [i \in 1..n |-> adc + i])
         /\ adc' = adc + n
         /\ overrun_logged' =
                IF queued_samples(source_buffer) <= inbuf_warn_level
                     /\ queued_samples(source_buffer) + n > inbuf_warn_level
                THEN FALSE ELSE overrun_logged
    /\ UNCHANGED devstate
    /\ UNCHANGED << mainVars, outVars, sigVars, output_buffer >>
    /\ UNCHANGED ctlVars
    /\ UNCHANGED compVars
    /\ UNCHANGED << discarded, destroyed >>

\* An I/O or driver failure while streaming: the device activity ends and
\* signals the end of the stream on the source buffer.
DeviceError ==
    /\ devstate = "running"
    /\ devstate' = "failed"
    /\ source_buffer' = push_end(source_buffer)
    /\ UNCHANGED << adc, srcPushed, overrun_logged >>
    /\ UNCHANGED << mainVars, outVars, sigVars, output_buffer >>
    /\ UNCHANGED ctlVars
    /\ UNCHANGED compVars
    /\ UNCHANGED << discarded, destroyed >>

\* The device activity observes the stop flag it was started with and stops
\* producing; whether it then signals the end of the stream is not fixed.
DeviceSeeStop ==
    /\ devstate = "running"
    /\ stop_flag
    /\ devstate' = "halted"
    /\ \E ends \in BOOLEAN :
         source_buffer' = IF ends THEN push_end(source_buffer) ELSE source_buffer
    /\ UNCHANGED << adc, srcPushed, overrun_logged >>
    /\ UNCHANGED << mainVars, outVars, sigVars, output_buffer >>
    /\ UNCHANGED ctlVars
    /\ UNCHANGED compVars
    /\ UNCHANGED << discarded, destroyed >>

Device == DevicePush \/ DeviceError \/ DeviceSeeStop

Signal == \E sig \in Signals : handle_sigterm(sig)

\* ----------------------------------------------------------- control port
\* Configuration strings a peer sends (README "Running": the format of the
\* -c option).
Messages == {"freq=433970000,decim=5,fcpos=0"}

\* A peer sends a configuration message to the control port while the
\* daemon streams.
ControlSend(m) ==
    /\ mainpc \in {"loop_check", "check_overflow", "pull", "process"}
    /\ m \notin ctrl_sent
    /\ ctrl_sent' = ctrl_sent \cup {m}
    /\ UNCHANGED ctrl_replies
    /\ UNCHANGED << mainVars, outVars, sigVars, devVars,
                    source_buffer, output_buffer >>
    /\ UNCHANGED compVars
    /\ UNCHANGED << discarded, destroyed >>

Control == \E m \in Messages : ControlSend(m)

\* ------------------------------------------------------------------ Next
Next ==
    \/ MainOpenSink \/ MainGetDevice \/ MainCheckSource \/ MainConfigure
    \/ MainStartSource \/ MainSpawnOutput
    \/ MainLoopCheck \/ MainCheckOverflow \/ MainPull \/ MainProcess
    \/ MainStopSource \/ MainPushEnd \/ MainJoin \/ MainReturn \/ MainDestruct
    \/ OutCheckStop \/ OutCheckFill \/ OutWaitFill \/ OutCheckEnd
    \/ OutPull \/ OutWrite
    \/ DevicePush \/ DeviceError \/ DeviceSeeStop
    \/ Signal

Spec == Init /\ [][Next]_vars

\* The two threads of the process are scheduled whenever they can run; the
\* device and the arrival of signals are outside the program's control.
FairSpec == Spec /\ WF_vars(Main) /\ WF_vars(Output)

\* The daemon with a peer on its control port.
CtlNext ==
    \/ Main \/ Output \/ Device \/ Signal
    \/ Control

CtlSpec == Init /\ [][CtlNext]_vars

\* --------------------------------------- a stream that has run for long
\* The largest value of the 32-bit loop counter.
UintMax == [hi |-> Half - 1, lo |-> Half - 1]

\* The daemon after 2^32 - 1 iterations of the main loop, at the loop
\* test: the first block was thrown away long ago, the queues are
\* drained, the device is running and the output thread is at its loop
\* test. The histories keep the first block of the run and leave out, on
\* the pulled side as on the pushed and written side, the 2^32 - 2 blocks
\* that followed it.
WrapInit ==
    /\ stop_flag = FALSE
    /\ sigact = Signals
    /\ mainpc = "loop_check"
    /\ outpc = "check_stop"
    /\ devstate = "running"
    /\ startup_error = "none"
    /\ source_buffer = EmptyBuffer
    /\ output_buffer = EmptyBuffer
    /\ adc = 0
    /\ block = UintMax
    /\ iqsamples = << >>
    /\ inbuf_length_warning = FALSE
    /\ warnings = 0
    /\ found_empty = FALSE
    /\ samples = << >>
    /\ sink_error = FALSE
    /\ written = << >>
    /\ srcPushed = << << 0 >> >>
    /\ srcPulled = << << 0 >> >>
    /\ outPushed = << >>
    /\ stopSrcQ = << >>
    /\ stopOutQ = << >>
    /\ overrun_logged = FALSE
    /\ main_written = << >>
    /\ sink = NewSink
    /\ datagrams = << >>
    /\ sink_sent = 0
    /\ ctrl_sent = {}
    /\ ctrl_replies = << >>
    /\ discarded = 1
    /\ destroyed = NoneDestroyed
    /\ CompIdle

WrapNext ==
    \/ MainLoopCheck \/ MainCheckOverflow \/ MainPull \/ MainProcess
    \/ MainStopSource \/ MainPushEnd \/ MainJoin \/ MainReturn \/ MainDestruct
    \/ Output \/ Device \/ Signal

WrapSpec == WrapInit /\ [][WrapNext]_vars

\* ------------------------------------------- the Downsampler on its own
\* log2 decimation factors a Downsampler can be constructed with.
Decims == 0..6

DnInit ==
    /\ DaemonIdle
    /\ opts = NoCall /\ dev = NoCall /\ svc = NoCall
    /\ fec = NoCall /\ txw = NoCall
    /\ \E d \in Decims, n \in 0..MaxInLen :
         dn = [pc |-> "constructed", m_decim |-> d,
               samples_in |-> [i \in 1..n |-> i], samples_out |-> << >>]

\* dn.process(samples_in, samples_out)
DnProcess ==
    /\ dn.pc = "constructed"
    /\ dn' = [dn EXCEPT !.pc = "done",
                        !.samples_out = process(dn.samples_in, dn.m_decim)]
    /\ UNCHANGED << mainVars, outVars, sigVars, devVars, ctlVars,
                    source_buffer, output_buffer, discarded, destroyed,
                    opts, dev, svc, fec, txw >>

DnNext == DnProcess

DnSpec == DnInit /\ [][DnNext]_vars

\* ------------------------------------------- main's command line parsing
INT_MAX == 2147483647
INT_MIN == (0 - INT_MAX) - 1

DigitChars == << "0", "1", "2", "3", "4", "5", "6", "7", "8", "9" >>
IsDigit(c) == \E i \in 1..10 : DigitChars[i] = c
DigitVal(c) == (CHOOSE i \in 1..10 : DigitChars[i] = c) - 1

\* a / b of C for b > 0: the quotient is truncated towards zero.
CDiv(a, b) ==
    IF a >= 0 \/ a % b = 0 THEN a \div b ELSE (a \div b) + 1

\* isspace, for the blank.
IsSpace(c) == c = " "

RECURSIVE SkipSpace(_, _)
\* The position of the first character of s from i on that is not a space.
SkipSpace(s, i) ==
    IF i <= Len(s) /\ IsSpace(s[i]) THEN SkipSpace(s, i + 1) ELSE i

RECURSIVE ScanDigits(_, _, _, _, _)
\* The digits of s from position i on, added to acc with the sign of the
\* number; endp is the position of the first character that is not a
\* digit, big tells that the number has left the range of int.
ScanDigits(s, i, acc, neg, big) ==
    IF i <= Len(s) /\ IsDigit(s[i])
    THEN LET d == DigitVal(s[i])
             fits == IF neg
                     THEN \/ acc > 0 - (INT_MAX \div 10)
                          \/ /\ acc = 0 - (INT_MAX \div 10)
                             /\ d <= (INT_MAX % 10) + 1
                     ELSE \/ acc < INT_MAX \div 10
                          \/ /\ acc = INT_MAX \div 10
                             /\ d <= INT_MAX % 10
         IN  IF big \/ ~fits
             THEN ScanDigits(s, i + 1, acc, neg, TRUE)
             ELSE ScanDigits(s, i + 1,
                             IF neg THEN acc * 10 - d ELSE acc * 10 + d,
                             neg, FALSE)
    ELSE [t |-> acc, endp |-> i, big |-> big]

\* strtol(s, &endp, 10) where long has 64 bits: leading spaces, an
\* optional sign and the decimal digits after it; endp = 1 (the start of
\* s) when there is no digit. range tells whether the long value is an
\* int, and t is the value when it is.
strtol(s) ==
    LET start == SkipSpace(s, 1)
        signed == start <= Len(s) /\ s[start] \in {"-", "+"}
        neg == signed /\ s[start] = "-"
        first == IF signed THEN start + 1 ELSE start
        scan == ScanDigits(s, first, 0, neg, FALSE)
    IN  IF scan.endp = first THEN [t |-> 0, endp |-> 1, range |-> "int"]
        ELSE [t |-> scan.t, endp |-> scan.endp,
              range |-> IF ~scan.big THEN "int"
                        ELSE IF neg THEN "below" ELSE "above"]

\* parse_int(s, v, allow_unit): ok tells the return value, v the value of
\* the reference argument after the call.
parse_int(s, v, allow_unit) ==
    LET r == strtol(s)
        unit == /\ allow_unit
                /\ r.endp <= Len(s) /\ s[r.endp] = "k"
                /\ r.range = "int"
                /\ r.t > CDiv(INT_MIN, 1000) /\ r.t < CDiv(INT_MAX, 1000)
        t == IF unit THEN r.t * 1000 ELSE r.t
        endp == IF unit THEN r.endp + 1 ELSE r.endp
    IN  IF r.endp = 1 THEN [ok |-> FALSE, v |-> v]
        ELSE IF endp <= Len(s) \/ r.range # "int"
             THEN [ok |-> FALSE, v |-> v]
             ELSE [ok |-> TRUE, v |-> t]

\* What getopt_long returns for the options of the option string
\* "t:c:d:r:M:b:I:D:C:"; "?" is its answer to any other option.
OptLetters == {"t", "c", "d", "r", "M", "b", "I", "D", "C", "?"}
\* Option arguments, as character strings.
OptArgs == { << "1" >>, << "2", "k" >>, << "x" >>, << "-", "1" >> }
Option == [c : OptLetters, optarg : OptArgs]

RECURSIVE SeqsUpTo(_, _)
\* The sequences over S of length n or less.
SeqsUpTo(S, n) ==
    IF n = 0 THEN { << >> }
    ELSE LET shorter == SeqsUpTo(S, n - 1)
         IN  shorter \cup { Append(q, x) : q \in shorter, x \in S }

\* main's locals before the option loop; argv holds the options not yet
\* returned by getopt_long, extra tells that a non-option argument
\* follows them, seen the options returned so far.
OptInit ==
    /\ DaemonIdle
    /\ dn = NoCall /\ dev = NoCall /\ svc = NoCall
    /\ fec = NoCall /\ txw = NoCall
    /\ \E argv \in SeqsUpTo(Option, MaxArgs), extra \in BOOLEAN :
         opts = [pc |-> "getopt", argv |-> argv, extra |-> extra,
                 seen |-> << >>,
                 devidx |-> 0, pcmrate |-> 48000, stereo |-> TRUE,
                 config_str |-> << >>, devtype_str |-> << >>,
                 ip_address |-> << >>,
                 dataport |-> 9090, cfgport |-> 9091,
                 stderr |-> "", exit_code |-> 0]

\* Every variable but opts.
NotOpts == << mainVars, outVars, sigVars, devVars, ctlVars, source_buffer,
              output_buffer, discarded, destroyed, dn, dev, svc, fec, txw >>

\* getopt_long has returned option letter c: opts with the option taken
\* from argv.
Taken(c) ==
    [opts EXCEPT !.argv = Tail(opts.argv),
                 !.seen = Append(opts.seen, Head(opts.argv))]

OptReturns(c) ==
    /\ opts.pc = "getopt"
    /\ opts.argv # << >>
    /\ Head(opts.argv).c = c

\* usage(); fprintf(stderr, msg); exit(1)
OptExit(o, msg) == [o EXCEPT !.pc = "exit", !.stderr = msg, !.exit_code = 1]

OptCase_t ==
    /\ OptReturns("t")
    /\ opts' = [Taken("t") EXCEPT !.devtype_str = Head(opts.argv).optarg]
    /\ UNCHANGED NotOpts

OptCase_c ==
    /\ OptReturns("c")
    /\ opts' = [Taken("c") EXCEPT !.config_str = Head(opts.argv).optarg]
    /\ UNCHANGED NotOpts

OptCase_d ==
    /\ OptReturns("d")
    /\ LET r == parse_int(Head(opts.argv).optarg, opts.devidx, FALSE)
       IN  opts' = [Taken("d") EXCEPT !.devidx = IF r.ok THEN r.v ELSE 0 - 1]
    /\ UNCHANGED NotOpts

OptCase_r ==
    /\ OptReturns("r")
    /\ LET r == parse_int(Head(opts.argv).optarg, opts.pcmrate, TRUE)
       IN  opts' = IF (~r.ok) \/ r.v < 1
                   THEN OptExit(Taken("r"), "ERROR: Invalid argument for -r")
                   ELSE [Taken("r") EXCEPT !.pcmrate = r.v]
    /\ UNCHANGED NotOpts

OptCase_M ==
    /\ OptReturns("M")
    /\ opts' = [Taken("M") EXCEPT !.stereo = FALSE]
    /\ UNCHANGED NotOpts

\* parse_dbl either takes the argument or not; bufsecs is not used after
\* the loop.
OptCase_b ==
    /\ OptReturns("b")
    /\ \E ok \in BOOLEAN :
         opts' = IF ok THEN Taken("b")
                 ELSE OptExit(Taken("b"), "ERROR: Invalid argument for -b")
    /\ UNCHANGED NotOpts

\* default: every letter the switch has no case for.
OptDefault ==
    /\ opts.pc = "getopt"
    /\ opts.argv # << >>
    /\ Head(opts.argv).c \notin {"t", "c", "d", "r", "M", "b"}
    /\ opts' = OptExit(Taken(Head(opts.argv).c),
                       "ERROR: Invalid command line options")
    /\ UNCHANGED NotOpts

\* getopt_long returns -1; if (optind < argc) ...
OptDone ==
    /\ opts.pc = "getopt"
    /\ opts.argv = << >>
    /\ opts' = IF opts.extra
               THEN OptExit(opts, "ERROR: Unexpected command line options")
               ELSE [opts EXCEPT !.pc = "parsed"]
    /\ UNCHANGED NotOpts

OptNext ==
    \/ OptCase_t \/ OptCase_c \/ OptCase_d \/ OptCase_r \/ OptCase_M
    \/ OptCase_b \/ OptDefault \/ OptDone

OptSpec == OptInit /\ [][OptNext]_vars

\* ------------------------------------------------- get_device on its own
UpperChars == << "A", "B", "C", "D", "E", "F", "G", "H", "I", "J", "K", "L",
                 "M", "N", "O", "P", "Q", "R", "S", "T", "U", "V", "W", "X",
                 "Y", "Z" >>
LowerChars == << "a", "b", "c", "d", "e", "f", "g", "h", "i", "j", "k", "l",
                 "m", "n", "o", "p", "q", "r", "s", "t", "u", "v", "w", "x",
                 "y", "z" >>

tolower(c) ==
    IF \E i \in 1..26 : UpperChars[i] = c
    THEN LowerChars[CHOOSE i \in 1..26 : UpperChars[i] = c]
    ELSE c

\* strcasecmp(a, b) == 0
strcasecmp_eq(a, b) ==
    /\ Len(a) = Len(b)
    /\ \A i \in 1..Len(a) : tolower(a[i]) = tolower(b[i])

rtlsdr == << "r", "t", "l", "s", "d", "r" >>
hackrf == << "h", "a", "c", "k", "r", "f" >>
airspy == << "a", "i", "r", "s", "p", "y" >>
bladerf == << "b", "l", "a", "d", "e", "r", "f" >>

\* The source classes get_device knows, by the name it compares with.
SourceTypes == {rtlsdr, hackrf, airspy, bladerf}

\* Values of -t given to get_device.
DevTypeArgs ==
    SourceTypes \cup
    { << "R", "t", "l", "S", "d", "r" >>,
      << "B", "L", "A", "D", "E", "R", "F" >>,
      << "t", "e", "s", "t" >>,
      << "f", "i", "l", "e" >>,
      << "s", "d", "r", "p", "l", "a", "y" >>,
      << >> }

\* The source class whose name devtype is, compared as strcasecmp does.
SourceOf(devtype) == CHOOSE t \in SourceTypes : strcasecmp_eq(devtype, t)

\* Entry of get_device: the device type and index of the command line and
\* the number of devices of any one type that are attached.
DevInit ==
    /\ DaemonIdle
    /\ dn = NoCall /\ opts = NoCall /\ svc = NoCall
    /\ fec = NoCall /\ txw = NoCall
    /\ \E t \in DevTypeArgs, i \in (0 - 1)..MaxDevices, n \in 0..MaxDevices :
         dev = [pc |-> "get_names", devtype |-> t, devidx |-> i,
                attached |-> n, devnames |-> << >>, enumerated |-> {},
                srcsdr |-> << >>, stderr |-> << >>, result |-> "none"]

\* Every variable but dev.
NotDev == << mainVars, outVars, sigVars, devVars, ctlVars, source_buffer,
             output_buffer, discarded, destroyed, dn, opts, svc, fec, txw >>

\* XSource::get_device_names(devnames) of the class the type names.
DevGetNames ==
    /\ dev.pc = "get_names"
    /\ \E t \in SourceTypes : strcasecmp_eq(dev.devtype, t)
    /\ dev' = [dev EXCEPT
                 !.pc = "check_index",
                 !.enumerated = {SourceOf(dev.devtype)},
                 !.devnames = [i \in 1..dev.attached |->
                                 << SourceOf(dev.devtype), i - 1 >>]]
    /\ UNCHANGED NotDev

\* else: "ERROR: wrong device type (-t option) ..."; return false
DevWrongType ==
    /\ dev.pc = "get_names"
    /\ ~ \E t \in SourceTypes : strcasecmp_eq(dev.devtype, t)
    /\ dev' = [dev EXCEPT
                 !.pc = "returned",
                 !.stderr = Append(dev.stderr, "ERROR: wrong device type"),
                 !.result = "false"]
    /\ UNCHANGED NotDev

\* if (devidx < 0 || devidx >= devnames.size()): the device list is
\* printed, after the index error unless the index is -1; return false
DevBadIndex ==
    /\ dev.pc = "check_index"
    /\ dev.devidx < 0 \/ dev.devidx >= Len(dev.devnames)
    /\ dev' = [dev EXCEPT
                 !.pc = "returned",
                 !.stderr = (IF dev.devidx # 0 - 1
                             THEN Append(dev.stderr,
                                         "ERROR: invalid device index")
                             ELSE dev.stderr) \o << "Found devices" >>,
                 !.result = "false"]
    /\ UNCHANGED NotDev

\* *srcsdr = new XSource(devidx); return true
DevOpen ==
    /\ dev.pc = "check_index"
    /\ ~ (dev.devidx < 0 \/ dev.devidx >= Len(dev.devnames))
    /\ dev' = [dev EXCEPT
                 !.pc = "returned",
                 !.stderr = Append(dev.stderr, "using device"),
                 !.srcsdr = dev.devnames[dev.devidx + 1],
                 !.result = "true"]
    /\ UNCHANGED NotDev

DevNext == DevGetNames \/ DevWrongType \/ DevBadIndex \/ DevOpen

DevSpec == DevInit /\ [][DevNext]_vars

\* -------------------------------------------------- parse_int on its own
\* Digit strings: small numbers, the numbers around INT_MAX / 1000 and
\* around INT_MAX, and one beyond the range of int.
ParseDigits ==
    { << >>,
      << "0" >>,
      << "1", "2" >>,
      << "2", "1", "4", "7", "4", "8", "2" >>,
      << "2", "1", "4", "7", "4", "8", "3" >>,
      << "2", "1", "4", "7", "4", "8", "4" >>,
      << "2", "1", "4", "7", "4", "8", "3", "6", "4", "7" >>,
      << "2", "1", "4", "7", "4", "8", "3", "6", "4", "8" >>,
      << "9", "9", "9", "9", "9", "9", "9", "9", "9", "9", "9" >> }

\* Strings given to parse_int: digits with or without a leading blank, a
\* sign and trailing characters.
ParseInputs ==
    { (blank \o sign) \o (digits \o rest) :
        blank \in { << >>, << " " >> },
        sign \in { << >>, << "-" >>, << "+" >> },
        digits \in ParseDigits,
        rest \in { << >>, << "k" >>, << "k", "k" >>, << "x" >> } }

\* A call of parse_int from the option loop: v_in is the value the
\* variable passed for v holds before the call (devidx 0, pcmrate 48000).
ParseInit ==
    /\ DaemonIdle
    /\ dn = NoCall /\ dev = NoCall /\ svc = NoCall
    /\ fec = NoCall /\ txw = NoCall
    /\ \E str \in ParseInputs, unit \in BOOLEAN, v \in {0, 48000} :
         opts = [pc |-> "parse_int", s |-> str, allow_unit |-> unit,
                 v_in |-> v, v |-> v, ok |-> FALSE]

\* parse_int(s, v, allow_unit)
ParseCall ==
    /\ opts.pc = "parse_int"
    /\ LET r == parse_int(opts.s, opts.v, opts.allow_unit)
       IN  opts' = [opts EXCEPT !.pc = "returned", !.ok = r.ok, !.v = r.v]
    /\ UNCHANGED NotOpts

ParseNext == ParseCall

ParseSpec == ParseInit /\ [][ParseNext]_vars

\* ------------------------------------- device selection from -t and -d
\* Values of -d: indices, the word list and other selectors.
SelectorArgs ==
    OptArgs \cup { << "0" >>, << "l", "i", "s", "t" >> }

\* Command lines with a device type and at most one device selector.
SelectArgvs ==
    { << [c |-> "t", optarg |-> t] >> : t \in DevTypeArgs } \cup
    { << [c |-> "t", optarg |-> t], [c |-> "d", optarg |-> a] >> :
        t \in DevTypeArgs, a \in SelectorArgs }

\* main before its option loop, with such a command line.
SelectInit ==
    /\ DaemonIdle
    /\ dn = NoCall /\ dev = NoCall /\ svc = NoCall
    /\ fec = NoCall /\ txw = NoCall
    /\ \E argv \in SelectArgvs :
         opts = [pc |-> "getopt", argv |-> argv, extra |-> FALSE,
                 seen |-> << >>,
                 devidx |-> 0, pcmrate |-> 48000, stereo |-> TRUE,
                 config_str |-> << >>, devtype_str |-> << >>,
                 ip_address |-> << >>,
                 dataport |-> 9090, cfgport |-> 9091,
                 stderr |-> "", exit_code |-> 0]

\* 356-403: the handlers are installed and the UDP sink is opened, which
\* may fail and end the process; then get_device is called with the type
\* and index of the command line, on a machine with some number of
\* devices attached.
SelectCall ==
    /\ opts.pc = "parsed"
    /\ dev = NoCall
    /\ \E sink_ok \in BOOLEAN, n \in 0..MaxDevices :
         IF sink_ok
         THEN /\ opts' = [opts EXCEPT !.pc = "get_device"]
              /\ dev' = [pc |-> "get_names", devtype |-> opts.devtype_str,
                         devidx |-> opts.devidx, attached |-> n,
                         devnames |-> << >>, enumerated |-> {},
                         srcsdr |-> << >>, stderr |-> << >>,
                         result |-> "none"]
         ELSE /\ opts' = OptExit(opts, "ERROR: UDP Output")
              /\ UNCHANGED dev
    /\ UNCHANGED << mainVars, outVars, sigVars, devVars, ctlVars,
                    source_buffer, output_buffer, discarded, destroyed,
                    dn, svc, fec, txw >>

\* 403-406: if (!get_device(...)) exit(1); otherwise main goes on to test
\* the source it was given.
SelectReturn ==
    /\ opts.pc = "get_device"
    /\ dev.pc = "returned"
    /\ opts' = IF dev.result = "false"
               THEN [opts EXCEPT !.pc = "exit", !.exit_code = 1]
               ELSE [opts EXCEPT !.pc = "check_source"]
    /\ UNCHANGED NotOpts

SelectNext ==
    \/ OptCase_t \/ OptCase_d \/ OptDone
    \/ SelectCall
    \/ DevGetNames \/ DevWrongType \/ DevBadIndex \/ DevOpen
    \/ SelectReturn

SelectSpec == SelectInit /\ [][SelectNext]_vars

\* ------------------------------------------------- the service wrapper
\* What $(which jq) puts in JQ, as words: the path of jq when it is
\* installed; nothing, or a message of several words, when it is not.
WhichOutputs(installed) ==
    IF installed THEN { << "/usr/bin/jq" >> }
    ELSE { << >>, << "no", "jq", "in", "PATH" >> }

\* Exit status of `test -x $JQ` after word splitting: with no word left
\* the command is `test -x`, the one-argument test of a non-empty string,
\* which succeeds; with one word it tests the file; with more it is a
\* syntax error.
test_x(words, executable) ==
    IF Len(words) = 0 THEN 0
    ELSE IF Len(words) = 1 THEN (IF executable THEN 0 ELSE 1)
    ELSE 2

\* First arguments the wrapper is called with.
SvcArgs == {"start", "stop", "restart", "force-reload", "status", "reload"}

\* The machine the wrapper runs on and its first argument.
SvcInit ==
    /\ DaemonIdle
    /\ dn = NoCall /\ opts = NoCall /\ dev = NoCall
    /\ fec = NoCall /\ txw = NoCall
    /\ \E lsb \in BOOLEAN, daemon_x \in BOOLEAN, jq \in BOOLEAN,
          conf \in BOOLEAN, arg \in SvcArgs :
         svc = [pc |-> "source", lsb |-> lsb, daemon_x |-> daemon_x,
                jq_installed |-> jq, conf_file |-> conf, arg |-> arg,
                JQ |-> << >>, SDRDAEMONRX_OPTS |-> "unset",
                ran |-> << >>, exit_code |-> 0 - 1]

\* Every variable but svc.
NotSvc == << mainVars, outVars, sigVars, devVars, ctlVars, source_buffer,
             output_buffer, discarded, destroyed, dn, opts, dev, fec, txw >>

SvcExit(code) == [svc EXCEPT !.pc = "exited", !.exit_code = code]

\* . /lib/lsb/init-functions: a file that can not be read ends the shell.
SvcSource ==
    /\ svc.pc = "source"
    /\ \/ svc.lsb /\ svc' = [svc EXCEPT !.pc = "which"]
       \/ ~svc.lsb /\ \E code \in {1, 2} : svc' = SvcExit(code)
    /\ UNCHANGED NotSvc

\* JQ=$(which jq)
SvcWhich ==
    /\ svc.pc = "which"
    /\ \E out \in WhichOutputs(svc.jq_installed) :
         svc' = [svc EXCEPT !.pc = "test_daemon", !.JQ = out]
    /\ UNCHANGED NotSvc

\* test -x $DAEMON || exit 5
SvcTestDaemon ==
    /\ svc.pc = "test_daemon"
    /\ svc' = IF test_x(<< "sdrdaemonrx" >>, svc.daemon_x) = 0
              THEN [svc EXCEPT !.pc = "test_jq"]
              ELSE SvcExit(5)
    /\ UNCHANGED NotSvc

\* test -x $JQ || exit 5
SvcTestJq ==
    /\ svc.pc = "test_jq"
    /\ svc' = IF test_x(svc.JQ, svc.jq_installed) = 0
              THEN [svc EXCEPT !.pc = "test_conf"]
              ELSE SvcExit(5)
    /\ UNCHANGED NotSvc

\* test -f ${CONF_FILE} || exit 5
SvcTestConf ==
    /\ svc.pc = "test_conf"
    /\ svc' = IF svc.conf_file
              THEN [svc EXCEPT !.pc = "read_conf"]
              ELSE SvcExit(5)
    /\ UNCHANGED NotSvc

\* if [ -e ${CONF_FILE} ]; then type=$(jq ...) ... fi: without jq every
\* value is empty.
SvcReadConf ==
    /\ svc.pc = "read_conf"
    /\ svc' = [svc EXCEPT
                 !.pc = "case",
                 !.SDRDAEMONRX_OPTS =
                     IF ~svc.conf_file THEN "unset"
                     ELSE IF svc.jq_installed THEN "from_conf"
                     ELSE "empty_values"]
    /\ UNCHANGED NotSvc

\* start) /sbin/startproc $DAEMON $SDRDAEMONRX_OPTS
SvcStart ==
    /\ svc.pc = "case"
    /\ svc.arg = "start"
    /\ \E rc \in {0, 1} :
         svc' = [SvcExit(rc) EXCEPT !.ran = Append(svc.ran, "startproc")]
    /\ UNCHANGED NotSvc

\* stop) /sbin/killproc -TERM $DAEMON
SvcStop ==
    /\ svc.pc = "case"
    /\ svc.arg = "stop"
    /\ \E rc \in {0, 1} :
         svc' = [SvcExit(rc) EXCEPT !.ran = Append(svc.ran, "killproc")]
    /\ UNCHANGED NotSvc

\* restart|force-reload) $0 stop && sleep 2 && $0 start
SvcRestart ==
    /\ svc.pc = "case"
    /\ svc.arg \in {"restart", "force-reload"}
    /\ \E stopped \in BOOLEAN, rc \in {0, 1} :
         svc' = [SvcExit(rc) EXCEPT
                   !.ran = IF stopped
                           THEN svc.ran \o << "killproc", "startproc" >>
                           ELSE Append(svc.ran, "killproc")]
    /\ UNCHANGED NotSvc

\* status) /sbin/checkproc $DAEMON
SvcStatus ==
    /\ svc.pc = "case"
    /\ svc.arg = "status"
    /\ \E rc \in {0, 1, 3} :
         svc' = [SvcExit(rc) EXCEPT !.ran = Append(svc.ran, "checkproc")]
    /\ UNCHANGED NotSvc

\* *) echo "Usage: ..."; exit2: no such command, the shell ends with 127.
SvcUsage ==
    /\ svc.pc = "case"
    /\ svc.arg \notin {"start", "stop", "restart", "force-reload", "status"}
    /\ svc' = SvcExit(127)
    /\ UNCHANGED NotSvc

SvcNext ==
    \/ SvcSource \/ SvcWhich \/ SvcTestDaemon \/ SvcTestJq \/ SvcTestConf
    \/ SvcReadConf \/ SvcStart \/ SvcStop \/ SvcRestart \/ SvcStatus
    \/ SvcUsage

ServiceSpec == SvcInit /\ [][SvcNext]_vars

\* ------------------------------------------------ the FEC codec on its own
\* The codec works on the symbols of a block body one by one; a body is
\* one symbol here, and the field GF(2^8) is scaled to GF(2^3), built on
\* x^3 + x + 1.
GfOrder == 8
GfExp == << 1, 2, 4, 3, 6, 7, 5 >>

GfAdd(a, b) ==
    (((a % 2) + (b % 2)) % 2)
        + 2 * ((((a \div 2) % 2) + ((b \div 2) % 2)) % 2)
        + 4 * ((((a \div 4) % 2) + ((b \div 4) % 2)) % 2)

GfLog(a) == CHOOSE i \in 0..(GfOrder - 2) : GfExp[i + 1] = a

GfMul(a, b) ==
    IF a = 0 \/ b = 0 THEN 0
    ELSE GfExp[((GfLog(a) + GfLog(b)) % (GfOrder - 1)) + 1]

GfInv(a) == GfExp[((GfOrder - 1 - GfLog(a)) % (GfOrder - 1)) + 1]

\* The data blocks of a frame: the meta block and the sample blocks.
nbDataBlocks == 1 + nbSampleBlocks

\* Faulty variant of Cauchy: every parity block is the plain sum of the
\* data blocks.
Cauchy_Ones(j, i) == 1

\* The Cauchy matrix: row j is parity block j, column i is data block i,
\* the element is 1 / (x_i + y_j) with x_i = i and y_j = nbDataBlocks + j.
Cauchy(j, i) == GfInv(GfAdd(i, nbDataBlocks + j))

RECURSIVE ParitySum(_, _, _)
\* Row j of the matrix times the data blocks i, i+1, ...
ParitySum(data, j, i) ==
    IF i >= nbDataBlocks THEN 0
    ELSE GfAdd(GfMul(Cauchy(j, i), data[i]), ParitySum(data, j, i + 1))

\* encode(data[k], m): the m parity blocks; m = 0 gives none.
encode(data, m) == [j \in 0..(m - 1) |-> ParitySum(data, j, 0)]

\* decode(blocks, presenceMask): the data blocks that solve the linear
\* system of the blocks present (data blocks as they are, parity blocks
\* as rows of the matrix).
decode(blocks, present) ==
    CHOOSE d \in [0..(nbDataBlocks - 1) -> 0..(GfOrder - 1)] :
        \A b \in present :
            IF b < nbDataBlocks THEN d[b] = blocks[b]
            ELSE ParitySum(d, b - nbDataBlocks, 0) = blocks[b]

\* Block bodies the frames under test are made of.
FecBodies == {0, 1, 6}

FecInit ==
    /\ DaemonIdle
    /\ dn = NoCall /\ opts = NoCall /\ dev = NoCall /\ svc = NoCall
    /\ txw = NoCall
    /\ \E data \in [0..(nbDataBlocks - 1) -> FecBodies], m \in 0..MaxFecBlocks :
         fec = [pc |-> "encode", data |-> data, nbFec |-> m,
                blocks |-> << >>, present |-> {}, decoded |-> << >>]

\* Every variable but fec.
NotFec == << mainVars, outVars, sigVars, devVars, ctlVars, source_buffer,
             output_buffer, discarded, destroyed, dn, opts, dev, svc, txw >>

\* The frame is encoded and all its blocks are sent.
FecEncode ==
    /\ fec.pc = "encode"
    /\ fec' = [fec EXCEPT
                 !.pc = "sent",
                 !.blocks = [b \in 0..(nbDataBlocks + fec.nbFec - 1) |->
                               IF b < nbDataBlocks THEN fec.data[b]
                               ELSE encode(fec.data, fec.nbFec)[b - nbDataBlocks]],
                 !.present = 0..(nbDataBlocks + fec.nbFec - 1)]
    /\ UNCHANGED NotFec

\* A block of the frame is lost on the way.
FecLose ==
    /\ fec.pc = "sent"
    /\ \E b \in fec.present : fec' = [fec EXCEPT !.present = @ \ {b}]
    /\ UNCHANGED NotFec

\* The receiver decodes what has arrived: with fewer than nbDataBlocks
\* blocks it reports InsufficientBlocks.
FecDecode ==
    /\ fec.pc = "sent"
    /\ IF Cardinality(fec.present) >= nbDataBlocks
       THEN fec' = [fec EXCEPT !.pc = "decoded",
                               !.decoded = decode(fec.blocks, fec.present)]
       ELSE fec' = [fec EXCEPT !.pc = "InsufficientBlocks"]
    /\ UNCHANGED NotFec

FecNext == FecEncode \/ FecLose \/ FecDecode

FecSpec == FecInit /\ [][FecNext]_vars

\* -------------------------------------------- the Tx window on its own
\* At most W frames are tracked.
W == 8
\* Modular comparison of frame indices across this half range.
HalfRange == 32768

\* Forward distance from frame index b to frame index a.
Dist(a, b) == (a - b + FrameCountWrap) % FrameCountWrap

\* Faulty variant of After: the indices are compared as plain numbers.
After_NoWrap(a, b) == a > b /\ a - b < HalfRange

\* a is after b iff (a - b) mod 65536 is in [1, 32768).
After(a, b) == Dist(a, b) >= 1 /\ Dist(a, b) < HalfRange

\* The oldest tracked frame: no tracked frame is before it.
Oldest(tracked) == CHOOSE o \in tracked : \A f \in tracked : ~After(o, f)

\* The frames that stay tracked once frame f has been entered: the oldest
\* ones are evicted while f is more than W/2 ahead of them.
Evicted(tracked, f) == {g \in tracked : Dist(f, g) <= W \div 2}

\* Frame indices of the datagrams fed to the window.
TxFrames == ((FrameCountWrap - MaxTxSpan)..(FrameCountWrap - 1))
                \cup (0..MaxTxSpan)

TxInit ==
    /\ DaemonIdle
    /\ dn = NoCall /\ opts = NoCall /\ dev = NoCall /\ svc = NoCall
    /\ fec = NoCall
    /\ txw = [pc |-> "receive", tracked |-> {}, got |-> FALSE,
              frame |-> 0, oldest |-> 0, had_oldest |-> FALSE,
              rejected |-> FALSE]

\* Every variable but txw.
NotTxw == << mainVars, outVars, sigVars, devVars, ctlVars, source_buffer,
             output_buffer, discarded, destroyed, dn, opts, dev, svc, fec >>

\* A datagram of frame f arrives: its frame entry is looked up or
\* created; a frame that is neither tracked nor after the oldest tracked
\* frame is rejected. The record keeps the datagram's frame index and the
\* oldest tracked frame it met.
TxReceive ==
    /\ txw.pc = "receive"
    /\ \E f \in TxFrames :
         LET known == txw.tracked # {}
             o == IF known THEN Oldest(txw.tracked) ELSE f
             fresh == f \notin txw.tracked
             stale == known /\ fresh /\ ~After(f, o)
         IN  txw' = [txw EXCEPT
                       !.got = TRUE,
                       !.frame = f,
                       !.oldest = o,
                       !.had_oldest = known,
                       !.rejected = stale,
                       !.tracked = IF stale THEN @
                                   ELSE Evicted(@ \cup {f}, f)]
    /\ UNCHANGED NotTxw

TxNext == TxReceive

TxSpec == TxInit /\ [][TxNext]_vars

\* ------------------------------------------------ the sink on its own
\* The sink is fed vectors of consecutive samples, as the output thread
\* feeds it, starting either as constructed or with FrameCountWrap - 1
\* frames already sent; datagrams then holds the blocks sent since.
PackInit ==
    /\ stop_flag = FALSE
    /\ sigact = Signals
    /\ mainpc = "open_sink"
    /\ outpc = "none"
    /\ devstate = "none"
    /\ startup_error = "none"
    /\ source_buffer = EmptyBuffer
    /\ output_buffer = EmptyBuffer
    /\ adc = 0
    /\ block = UintZero
    /\ iqsamples = << >>
    /\ inbuf_length_warning = FALSE
    /\ warnings = 0
    /\ found_empty = FALSE
    /\ samples = << >>
    /\ sink_error = FALSE
    /\ written = << >>
    /\ srcPushed = << >>
    /\ srcPulled = << >>
    /\ outPushed = << >>
    /\ stopSrcQ = << >>
    /\ stopOutQ = << >>
    /\ overrun_logged = FALSE
    /\ main_written = << >>
    /\ \E start \in {0, FrameCountWrap - 1} :
         /\ sink = [acc |-> << >>, frame |-> start]
         /\ sink_sent = start * BlocksPerFrame
    /\ datagrams = << >>
    /\ ctrl_sent = {}
    /\ ctrl_replies = << >>
    /\ discarded = 0
    /\ destroyed = NoneDestroyed
    /\ CompIdle

\* One call of write with the next 1..MaxVecLen samples.
PackWrite ==
    /\ \E n \in 1..MaxVecLen :
         /\ adc + n <= MaxPackSamples
         /\ written' = Append(written, [i \in 1..n |-> adc + i])
         /\ SinkWrite([i \in 1..n |-> adc + i])
         /\ adc' = adc + n
    /\ UNCHANGED << mainVars, sigVars, ctlVars, source_buffer, output_buffer >>
    /\ UNCHANGED << outpc, found_empty, samples, main_written >>
    /\ UNCHANGED << devstate, srcPushed, overrun_logged >>
    /\ UNCHANGED compVars
    /\ UNCHANGED << discarded, destroyed >>

PackNext == PackWrite

PackSpec == PackInit /\ [][PackNext]_vars

\* ------------------------------------------------------------ vocabulary
\* Positions of the main thread inside the streaming loop (473-512).
LoopPcs == {"loop_check", "check_overflow", "pull", "process"}

\* main has executed its return statement (528).
MainReturned == mainpc \in {"destruct", "exit0", "abort"}

\* The output thread has left write_output_data.
OutputDone == outpc = "done"

\* A thread waits inside a DataBuffer call or in join.
MainWaitsInPull == mainpc = "pull" /\ ~pull_ready(source_buffer)
MainWaitsInJoin == mainpc = "join" /\ outpc # "done"
OutWaitsInFill == outpc = "wait_fill"
                      /\ ~wait_buffer_fill(output_buffer, outputbuf_samples)
OutWaitsInPull == outpc = "pull" /\ ~pull_ready(output_buffer)

\* ------------------------------------------------------------------- C1
\* C1: once the stop flag is set while the daemon streams from a running
\* device, the main loop and the output thread are released from their
\* waits and both terminate, whatever the device does afterwards.
C1_StopReleasesAll ==
    (stop_flag /\ devstate = "running" /\ mainpc \in LoopPcs)
        ~> (MainReturned /\ OutputDone)

\* ------------------------------------------------------------------- C2
InSeq(v, s) == \E i \in 1..Len(s) : s[i] = v

\* C2: every vector queued in the source buffer or the output buffer at the
\* moment the stop flag is set has been pulled by its consumer (and, for
\* the output buffer, written) by the time that consumer thread has ended.
C2_DrainedBeforeExit ==
    /\ (stop_flag /\ MainReturned) =>
           \A i \in 1..Len(stopSrcQ) : InSeq(stopSrcQ[i], srcPulled)
    /\ (stop_flag /\ OutputDone) =>
           \A i \in 1..Len(stopOutQ) : InSeq(stopOutQ[i], written)

\* ------------------------------------------------------------------- C3
\* main has left the streaming loop.
MainLeftLoop ==
    mainpc \in {"stop_source", "push_end", "join", "return",
                "destruct", "exit0", "abort"}

\* C3: after the main loop the device is stopped first, then the end of the
\* stream is marked on the output buffer, then the output thread is joined,
\* and only then does main return; main never returns while the output
\* thread is running.
C3_ShutdownOrder ==
    /\ output_buffer.end_marked => devstate = "stopped"
    /\ mainpc = "push_end" => devstate = "stopped" /\ ~output_buffer.end_marked
    /\ mainpc = "join" => devstate = "stopped" /\ output_buffer.end_marked
    /\ (mainpc = "return" \/ MainReturned) =>
           devstate = "stopped" /\ output_buffer.end_marked /\ OutputDone

C3_Witness == mainpc = "exit0" /\ OutputDone /\ written # << >>

\* ------------------------------------------------------------------- C4
\* C4: when the source buffer signals the end of the stream and the stop
\* flag is never set, the main loop ends, every vector main pushed into the
\* output buffer is written exactly once, in order, before the output
\* thread exits, and main returns.
C4_EndOfStreamDrains ==
    /\ []((~stop_flag /\ OutputDone) => written = outPushed)
    /\ (source_buffer.end_marked /\ mainpc \in LoopPcs)
           ~> (stop_flag \/ (MainReturned /\ OutputDone))

C4_Witness ==
    /\ ~stop_flag
    /\ source_buffer.end_marked
    /\ mainpc = "exit0"
    /\ OutputDone
    /\ Len(written) >= 2

C6_StartupErrorExits1 ==
    /\ startup_error # "none" => (outpc = "none" /\ mainpc \notin LoopPcs)
    /\ (startup_error # "none" /\ mainpc \in {"exit0", "exit1", "abort"})
           => mainpc = "exit1"
    /\ mainpc = "exit0" => (startup_error = "none" /\ outpc = "done")

\* ------------------------------------------------------------------- C7
NonEmpty(seq) == SelectSeq(seq, LAMBDA v : v # << >>)

\* Vectors the output thread's pull has returned so far.
OutPulled == IF outpc = "write" THEN Append(written, samples) ELSE written

\* C7: for both buffers the non-empty vectors returned by pull, followed by
\* the vectors still queued, are exactly the vectors pushed, in push order.
C7_FifoNoDrop ==
    /\ srcPulled \o source_buffer.queue = srcPushed
    /\ NonEmpty(OutPulled) \o output_buffer.queue = outPushed

C7_Witness ==
    /\ Len(srcPulled) >= 2
    /\ source_buffer.queue # << >>
    /\ output_buffer.queue # << >>

\* ------------------------------------------------------------------- C8
RECURSIVE Total(_)
\* Number of samples in a sequence of vectors.
Total(seq) == IF seq = << >> THEN 0 ELSE Len(Head(seq)) + Total(Tail(seq))

MainSuspended == mainpc \notin {"exit0", "exit1", "abort"} /\ ~ENABLED Main
OutSuspended == outpc \notin {"none", "done"} /\ ~ENABLED Output

\* The running device can push whenever it has samples left to deliver.
PushNeverWaits ==
    (devstate = "running" /\ adc < MaxSamples) => ENABLED DevicePush

C10_WaitsForFill ==
    /\ (found_empty /\ outpc \in {"check_end", "pull"}) =>
           (queued_samples(output_buffer) >= outputbuf_samples
                \/ output_buffer.end_marked)
    /\ outpc = "wait_fill" => found_empty
    /\ (outpc \in {"check_end", "pull"} /\ ~found_empty) =>
           queued_samples(output_buffer) > 0

C10_Witness ==
    /\ found_empty
    /\ outpc = "pull"
    /\ ~output_buffer.end_marked
    /\ queued_samples(output_buffer) >= outputbuf_samples

\* ------------------------------------------------------------------ C11
\* The main loop executes the overrun test of lines 476-481.
OverflowTested == mainpc = "check_overflow" /\ mainpc' # mainpc

\* C11 as stated: the warning is logged once per occurrence: a test that
\* finds the source queue above the level logs the warning exactly when none
\* was logged since the queue last rose above the level, and the loop goes
\* on to the pull.
C11_OncePerOccurrence ==
    [][OverflowTested =>
          /\ mainpc' = "pull"
          /\ warnings' = IF queued_samples(source_buffer) > inbuf_warn_level
                               /\ ~overrun_logged
                          THEN warnings + 1 ELSE warnings]_vars

\* C11 amended: the warning is logged at most once in a run, by the first
\* test that finds the source queue above the level; later rises above
\* the level are not logged; the loop always goes on to the pull.
C11_OncePerRun ==
    /\ [](warnings <= 1)
    /\ [][OverflowTested =>
             /\ mainpc' = "pull"
             /\ warnings' = IF queued_samples(source_buffer) > inbuf_warn_level
                                  /\ warnings = 0
                             THEN 1 ELSE warnings]_vars

\* The queue rose above the level a second time, the test has run on it
\* without a warning, and main goes on pulling.
C11_Witness ==
    /\ warnings = 1
    /\ ~overrun_logged
    /\ queued_samples(source_buffer) > inbuf_warn_level
    /\ mainpc = "pull"
    /\ srcPulled # << >>

\* ------------------------------------------------------------------ C12
\* The output thread executes the write of lines 85-90.
WriteDone == outpc = "write" /\ outpc' # outpc

\* s is an initial part of t.
IsPrefix(s, t) == Len(s) <= Len(t) /\ \A i \in 1..Len(s) : s[i] = t[i]

\* C12: every vector pulled from the output buffer is passed to write
\* exactly once, in order, whether or not a write fails; a write, failed or
\* not, takes the output thread back to its loop test and changes neither
\* the stop flag nor anything of the main thread.
C12_SinkErrorNotFatal ==
    /\ [](/\ IsPrefix(written, outPushed)
          /\ outpc # "write" =>
                 Len(written) = Len(outPushed) - Len(output_buffer.queue))
    /\ [][WriteDone =>
             /\ written' = Append(written, samples)
             /\ outpc' = "check_stop"
             /\ stop_flag' = stop_flag
             /\ UNCHANGED mainVars]_vars

\* A write has failed and the output thread, still running with the stop
\* flag unset, has pulled the next vector for its next write.
C12_Witness ==
    /\ sink_error
    /\ written # << >>
    /\ outpc = "write"
    /\ ~stop_flag
    /\ mainpc \in LoopPcs

\* ------------------------------------------------------------------ C13
\* C13: every step that adds a vector to the source buffer or marks its end
\* is a step of the device activity, and every step that takes a vector
\* from it is the pull of the main thread; every step that adds a vector
\* to the output buffer or marks its end is a step of the main thread (its
\* push at 504, its push_end at 522), and every step that takes a vector
\* from it is the pull of the output thread.
C13_SingleProducerSingleConsumer ==
    [][/\ (source_buffer'.queue # source_buffer.queue
             /\ Len(source_buffer'.queue) >= Len(source_buffer.queue)) =>
            (devstate = "running" /\ adc' > adc
                /\ mainpc' = mainpc /\ outpc' = outpc)
       /\ source_buffer'.end_marked # source_buffer.end_marked =>
            (devstate = "running" /\ devstate' # devstate
                /\ mainpc' = mainpc /\ outpc' = outpc)
       /\ Len(source_buffer'.queue) < Len(source_buffer.queue) =>
            (mainpc = "pull" /\ mainpc' # mainpc
                /\ outpc' = outpc /\ UNCHANGED devVars)
       /\ (output_buffer'.queue # output_buffer.queue
             /\ Len(output_buffer'.queue) >= Len(output_buffer.queue)) =>
            (mainpc = "process" /\ mainpc' # mainpc
                /\ outpc' = outpc /\ UNCHANGED devVars)
       /\ output_buffer'.end_marked # output_buffer.end_marked =>
            (mainpc = "push_end" /\ mainpc' # mainpc
                /\ outpc' = outpc /\ UNCHANGED devVars)
       /\ Len(output_buffer'.queue) < Len(output_buffer.queue) =>
            (outpc = "pull" /\ outpc' # outpc
                /\ mainpc' = mainpc /\ UNCHANGED devVars)]_vars

\* Both buffers have been pushed to, pulled from and (the output buffer)
\* ended, with the device still producing.
C13_Witness ==
    /\ Len(srcPulled) >= 2
    /\ source_buffer.queue # << >>
    /\ written # << >>
    /\ output_buffer.end_marked

\* ------------------------------------------------------------------ C14
\* C14: the main thread and the output thread never both call write on
\* the sink, and once the output thread has been started the main thread
\* has made no write of its own.
C14_SinkSingleThread ==
    /\ ~(main_written # << >> /\ written # << >>)
    /\ outpc # "none" => main_written = << >>

\* The output thread has written while main has processed and handed on a
\* further block and is still in its loop.
C14_Witness ==
    /\ written # << >>
    /\ Len(outPushed) >= 2
    /\ mainpc \in LoopPcs
    /\ outpc \notin {"none", "done"}

\* ------------------------------------------------------------------ C15
\* The replies the daemon has sent to the request m.
RepliesTo(m) == {i \in 1..Len(ctrl_replies) : ctrl_replies[i].request = m}

\* C15: every configuration message that reached the control port while
\* the daemon was streaming has been answered with exactly one
\* acknowledgement by the time the process has ended.
C15_EveryMessageAnswered ==
    mainpc \in {"exit0", "abort"} =>
        \A m \in ctrl_sent : Cardinality(RepliesTo(m)) = 1

\* ------------------------------------------------------------------ C19
\* C19: the n-th block the sink has sent since it was constructed (n = 0,
\* 1, ...) is block n mod BlocksPerFrame of frame n div BlocksPerFrame
\* (modulo 65536): the first block is block 0 of frame 0, the blocks of a
\* frame go out as 0, 1, ..., nbSampleBlocks + nbFecBlocks with no gap or
\* repeat, a frame starts only after the last block of the frame before,
\* and consecutive frames carry consecutive frame counts.
C19_FrameAndBlockOrder ==
    \A i \in 1..Len(datagrams) :
        LET n == sink_sent - Len(datagrams) + i - 1
        IN  /\ datagrams[i].block = n % BlocksPerFrame
            /\ datagrams[i].frame = (n \div BlocksPerFrame) % FrameCountWrap

\* Two frames have been sent across the wrap of the frame count.
C19_Witness ==
    /\ Len(datagrams) >= 2 * BlocksPerFrame
    /\ datagrams[1].frame = FrameCountWrap - 1
    /\ datagrams[BlocksPerFrame + 1].frame = 0

\* ------------------------------------------------------------------ C20
RECURSIVE Flatten(_)
\* The samples of a sequence of vectors, in order.
Flatten(seq) == IF seq = << >> THEN << >> ELSE Head(seq) \o Flatten(Tail(seq))

RECURSIVE SentSamples(_)
\* The samples carried by the sample blocks of a sequence of blocks.
SentSamples(blocks) ==
    IF blocks = << >> THEN << >>
    ELSE (IF Head(blocks).kind = "samples" THEN Head(blocks).body ELSE << >>)
             \o SentSamples(Tail(blocks))

\* C20: the sink sends whole frames only: the blocks sent are a whole
\* number of frames, every sample block sent is full, the samples sent
\* followed by the samples still accumulated are exactly the samples
\* written, and less than a frame is accumulated; this holds up to and
\* after the end of the process, so what is accumulated at the drain is
\* never sent, padded or not.
C20_WholeFramesOnly ==
    /\ Len(datagrams) % BlocksPerFrame = 0
    /\ \A i \in 1..Len(datagrams) :
           datagrams[i].kind = "samples" =>
               Len(datagrams[i].body) = samplesPerBlock
    /\ SentSamples(datagrams) \o sink.acc = Flatten(written)
    /\ Len(sink.acc) < FrameSamples

\* The process has ended after the drain with part of a frame accumulated
\* in the sink and nothing sent for it.
C20_Witness ==
    /\ mainpc = "exit0"
    /\ sink.acc # << >>
    /\ written # << >>
    /\ datagrams = << >>

\* ------------------------------------------------------------------ C21
\* C21: for every number of parity blocks and every set of blocks of a
\* frame that arrives with at least nbDataBlocks distinct block indices,
\* decode gives back all data-block bodies exactly as they were given to
\* encode, whichever blocks were lost.
C21_FecComplete ==
    (fec.pc = "decoded" /\ Cardinality(fec.present) >= nbDataBlocks) =>
        fec.decoded = fec.data

\* Two data blocks with non-zero bodies were lost, exactly nbDataBlocks
\* blocks arrived, and the frame has been decoded.
C21_Witness ==
    /\ fec.pc = "decoded"
    /\ fec.nbFec = 2
    /\ Cardinality(fec.present) = nbDataBlocks
    /\ 0 \notin fec.present /\ 1 \notin fec.present
    /\ fec.data[0] # 0 /\ fec.data[1] # 0 /\ fec.data[0] # fec.data[1]

\* ------------------------------------------------------------------ C22
\* C22: a datagram whose frame index is after the oldest tracked frame by
\* a modular distance of at most W/2 is not rejected and its frame is
\* tracked afterwards, also when the indices pass from 65535 to 0.
C22_WrapAccepted ==
    (txw.pc = "receive" /\ txw.got /\ txw.had_oldest
        /\ Dist(txw.frame, txw.oldest) >= 1
        /\ Dist(txw.frame, txw.oldest) <= W \div 2) =>
            (~txw.rejected /\ txw.frame \in txw.tracked)

\* The oldest tracked frame was 65535 or just before, and a datagram of a
\* frame past the wrap has been taken.
C22_Witness ==
    /\ txw.pc = "receive" /\ txw.got /\ txw.had_oldest
    /\ txw.oldest >= FrameCountWrap - 2
    /\ txw.frame <= 2
    /\ Dist(txw.frame, txw.oldest) = W \div 2
    /\ ~txw.rejected

\* ------------------------------------------------------------------ C24
RECURSIVE Shr(_, _)
\* n >> k
Shr(n, k) == IF k = 0 THEN n ELSE Shr(n \div 2, k - 1)

\* C24: after a call of process the output vector has length
\* len(in) >> decim for every decim in 0..6, and with decim = 0 the output
\* is the input, sample for sample.
C24_ProcessLength ==
    dn.pc = "done" =>
        /\ Len(dn.samples_out) = Shr(Len(dn.samples_in), dn.m_decim)
        /\ dn.m_decim = 0 => dn.samples_out = dn.samples_in

\* A call with the largest factor on an input that is not a multiple of
\* 64 samples has given one output sample.
C24_Witness ==
    /\ dn.pc = "done"
    /\ dn.m_decim = 6
    /\ Len(dn.samples_in) > 64
    /\ Len(dn.samples_out) = 1

\* ------------------------------------------------------------------ C25
\* The option letters returned by getopt_long so far.
SeenLetters == { opts.seen[i].c : i \in 1..Len(opts.seen) }

\* The last argument given to option letter c.
LastArg(c) ==
    LET is == { i \in 1..Len(opts.seen) : opts.seen[i].c = c }
    IN  opts.seen[CHOOSE i \in is : \A j \in is : j <= i].optarg

\* The option loop has been left, by exit or past its end.
OptLoopLeft == opts.pc \in {"exit", "parsed"}

\* C25: -I, -D and -C with a value do not abort startup: the option loop
\* never exits on one of them; after the loop -D's value is the data port
\* and -C's the control port, and without them the ports are 9090 and 9091.
C25_PortOptions ==
    OptLoopLeft =>
        /\ (opts.pc = "exit" /\ opts.seen # << >>) =>
               opts.seen[Len(opts.seen)].c \notin {"I", "D", "C"}
               \/ opts.stderr # "ERROR: Invalid command line options"
        /\ (opts.pc = "parsed" /\ "D" \in SeenLetters
               /\ parse_int(LastArg("D"), 0, FALSE).ok) =>
               opts.dataport = parse_int(LastArg("D"), 0, FALSE).v
        /\ (opts.pc = "parsed" /\ "C" \in SeenLetters
               /\ parse_int(LastArg("C"), 0, FALSE).ok) =>
               opts.cfgport = parse_int(LastArg("C"), 0, FALSE).v
        /\ "D" \notin SeenLetters => opts.dataport = 9090
        /\ "C" \notin SeenLetters => opts.cfgport = 9091

\* ------------------------------------------------------------------ C26
\* The device types the -t option is said to accept.
AcceptedTypes ==
    SourceTypes \cup { << "t", "e", "s", "t" >>, << "f", "i", "l", "e" >> }

\* devtype is one of the types of S, in any letter case.
TypeIn(devtype, S) == \E t \in S : strcasecmp_eq(devtype, t)

\* C26: get_device accepts each of rtlsdr, hackrf, airspy, bladerf, test
\* and file, and a device it opens is of the type asked for; any other
\* type makes it fail with no device enumerated or opened.
C26_DeviceTypes ==
    dev.pc = "returned" =>
        /\ TypeIn(dev.devtype, AcceptedTypes) =>
               \A i \in 1..Len(dev.stderr) :
                   dev.stderr[i] # "ERROR: wrong device type"
        /\ dev.result = "true" =>
               strcasecmp_eq(dev.devtype, dev.srcsdr[1])
        /\ ~ TypeIn(dev.devtype, AcceptedTypes) =>
               /\ dev.result = "false"
               /\ dev.srcsdr = << >>
               /\ dev.enumerated = {}

\* ------------------------------------------------------------------ C27
\* The daemon binary is not executable, jq is not installed or the
\* configuration file does not exist.
DependencyMissing ==
    ~svc.daemon_x \/ ~svc.jq_installed \/ ~svc.conf_file

\* C27: when a dependency is missing the wrapper, once its shell functions
\* are loaded, runs none of startproc, killproc and checkproc and ends
\* with exit code 5.
C27_MissingDependencyExits5 ==
    (svc.pc \notin {"none", "source"} /\ svc.lsb /\ DependencyMissing) =>
        /\ svc.ran = << >>
        /\ svc.pc \notin {"read_conf", "case"}
        /\ svc.pc = "exited" => svc.exit_code = 5

\* ------------------------------------------------------------------ C28
\* The pulled blocks that have been through the body of the main loop.
ProcessedBlocks ==
    IF mainpc = "process" THEN SubSeq(srcPulled, 1, Len(srcPulled) - 1)
    ELSE srcPulled

\* The processed vectors of every block but the first of the run.
LaterVectors ==
    [i \in 1..(Len(ProcessedBlocks) - 1) |->
        process(ProcessedBlocks[i + 1], m_decim)]

\* C28: the first pulled block is discarded and every later one is
\* forwarded: the vectors pushed to the output buffer are the processed
\* vectors of the later blocks, each once and in the order pulled, and
\* the vectors written to the UDP sink are a prefix of them.
C28_LaterBlocksForwarded ==
    /\ outPushed = LaterVectors
    /\ IsPrefix(written, LaterVectors)

\* ------------------------------------------------------------------ C29
\* C29: over a run of any length exactly one pulled block is thrown away,
\* the first: once a block has been processed the count of discarded
\* blocks is 1 and stays 1, also when the block counter wraps.
C29_OnlyFirstDiscarded ==
    /\ discarded <= 1
    /\ Len(ProcessedBlocks) >= 1 => discarded = 1

\* ------------------------------------------------------------------ C30
\* main is past its loop.
AfterLoopPcs == {"stop_source", "push_end", "join", "return", "destruct",
                 "exit0", "abort"}

\* One step keeps the stop flag monotonic: only a step of the signal
\* handler changes it, and only to true; a loop that tests it and finds
\* it true is left, and a loop that was left is not entered again.
StopFlagStep ==
    /\ stop_flag' # stop_flag => (stop_flag' = TRUE /\ sigact' # sigact)
    /\ stop_flag => stop_flag'
    /\ (mainpc = "loop_check" /\ stop_flag /\ mainpc' # mainpc) =>
           mainpc' \in AfterLoopPcs
    /\ mainpc \in AfterLoopPcs => mainpc' \in AfterLoopPcs
    /\ (outpc = "check_stop" /\ stop_flag /\ outpc' # outpc) => outpc' = "done"
    /\ outpc = "done" => outpc' = "done"
    /\ devstate \in {"halted", "stopped"} => devstate' # "running"

\* C30: the stop flag is false initially, only the signal handler writes
\* it, it never goes back from true to false, and the loops that have
\* seen it true do not resume.
C30_StopFlagMonotonic == (stop_flag = FALSE) /\ [][StopFlagStep]_vars

\* Both signals were handled, the second while the flag was already true,
\* and both threads have left their loops on it.
C30_Witness ==
    /\ stop_flag
    /\ sigact = {}
    /\ mainpc \in AfterLoopPcs
    /\ outpc = "done"
    /\ devstate \in {"halted", "stopped"}

\* ------------------------------------------------------------------ C31
\* One step keeps the end mark of the output buffer in its place: it is set
\* by main's push_end step only, which finds it unset; once set it stays
\* and nothing more is pushed; the main loop is left towards stop() and
\* push_end only.
EndMarkStep ==
    /\ output_buffer'.end_marked # output_buffer.end_marked =>
           (mainpc = "push_end" /\ mainpc' = "join")
    /\ (mainpc = "push_end" /\ mainpc' # mainpc) =>
           (~output_buffer.end_marked /\ output_buffer'.end_marked)
    /\ output_buffer.end_marked =>
           /\ output_buffer'.end_marked
           /\ outPushed' = outPushed
           /\ Len(output_buffer'.queue) <= Len(output_buffer.queue)
    /\ (mainpc \in LoopPcs /\ mainpc' \notin LoopPcs) => mainpc' = "stop_source"
    /\ (mainpc = "stop_source" /\ mainpc' # mainpc) => mainpc' = "push_end"

\* C31: the end of the stream is signalled on the output buffer once per
\* run and after the last push, and every way out of the main loop, by
\* the stop flag or by an empty pull, reaches push_end.
C31_EndSignalledOnce ==
    /\ [][EndMarkStep]_vars
    /\ (mainpc = "stop_source") ~> output_buffer.end_marked

\* The loop was left after vectors had been pushed, the end is marked and
\* main has returned.
C31_Witness ==
    /\ output_buffer.end_marked
    /\ Len(outPushed) >= 1
    /\ MainReturned

\* ------------------------------------------------------------------ C32
\* C32: whenever the output thread is at its pull a non-empty vector is
\* queued in the output buffer, so the pull returns at once, and no vector
\* it holds for writing or has written is empty.
C32_PullFindsVector ==
    /\ outpc = "pull" =>
           /\ output_buffer.queue # << >>
           /\ Head(output_buffer.queue) # << >>
           /\ pull_ready(output_buffer)
    /\ outpc = "write" => samples # << >>
    /\ \A i \in 1..Len(written) : written[i] # << >>

\* The thread found the buffer empty, waited, and holds a vector it has
\* pulled after the end of the stream was marked below the fill level.
C32_Witness ==
    /\ outpc = "write"
    /\ found_empty
    /\ output_buffer.end_marked
    /\ Len(samples) < outputbuf_samples
    /\ output_buffer.queue = << >>
    /\ written = << >>

\* ------------------------------------------------------------------ C33
\* C33: at normal shutdown each of the UDP sink, the device source and the
\* two sample buffers is destroyed exactly once: no destructor runs twice,
\* a process that has ended with status 0 has destroyed each of them once,
\* and none is destroyed while the output thread is still running.
C33_ReleasedOnce ==
    /\ \A o \in Objects : destroyed[o] <= 1
    /\ mainpc = "exit0" => \A o \in Objects : destroyed[o] = 1
    /\ (\E o \in Objects : destroyed[o] > 0) => outpc \in {"none", "done"}

\* ------------------------------------------------------------------ C34
\* s is, in its entirety, an optional sign followed by decimal digits.
IsNumeral(s) ==
    LET first == IF Len(s) > 0 /\ s[1] \in {"-", "+"} THEN 2 ELSE 1
    IN  /\ Len(s) >= first
        /\ \A i \in first..Len(s) : IsDigit(s[i])

\* The selector given with -d.
Selector == LastArg("d")

\* A line of get_device's output.
DevSaid(line) == \E i \in 1..Len(dev.stderr) : dev.stderr[i] = line

\* get_device has returned to main for a device type it knows, and main
\* has acted on the result.
SelectionDone ==
    /\ opts.pc \in {"exit", "check_source"}
    /\ dev.pc = "returned"
    /\ TypeIn(dev.devtype, SourceTypes)
    /\ "d" \in SeenLetters

\* No device object was made and the process has exited.
FailedClosed ==
    /\ dev.srcsdr = << >>
    /\ dev.result = "false"
    /\ opts.pc = "exit"
    /\ opts.exit_code = 1

\* C34: with a selector that is not a number the device list is printed
\* without the invalid-index error; with a number outside
\* 0..(number of devices - 1) the error is reported; in both cases no
\* device object is made and the process exits.
C34_SelectionFailsClosed ==
    SelectionDone =>
        /\ ~IsNumeral(Selector) =>
               /\ DevSaid("Found devices")
               /\ ~DevSaid("ERROR: invalid device index")
               /\ FailedClosed
        /\ (IsNumeral(Selector)
               /\ strtol(Selector).t \notin 0..(dev.attached - 1)) =>
               /\ DevSaid("ERROR: invalid device index")
               /\ FailedClosed

\* ------------------------------------------------------------------ C35
\* s is, in its entirety, a decimal integer within the int range.
IntNumeral(s) == IsNumeral(s) /\ strtol(s).range = "int"

\* s without its last character.
Front(s) == SubSeq(s, 1, Len(s) - 1)

\* 1000 * n is within the int range.
ThousandfoldInInt(n) ==
    n >= CDiv(INT_MIN, 1000) /\ n <= CDiv(INT_MAX, 1000)

\* What the call is to give: true and the integer for a decimal integer in
\* the int range; with allow_unit, true and 1000 times the integer for
\* such an integer followed by one k when the product is in the int
\* range; false and v as it was otherwise.
Expected(s, v, allow_unit) ==
    IF IntNumeral(s) THEN [ok |-> TRUE, v |-> strtol(s).t]
    ELSE IF /\ allow_unit
            /\ Len(s) >= 2 /\ s[Len(s)] = "k"
            /\ IntNumeral(Front(s))
            /\ ThousandfoldInInt(strtol(Front(s)).t)
         THEN [ok |-> TRUE, v |-> 1000 * strtol(Front(s)).t]
         ELSE [ok |-> FALSE, v |-> v]

\* C35: parse_int returns true and sets v exactly when s is in its
\* entirety a decimal integer in the int range, or with allow_unit such
\* an integer followed by a single k with the thousandfold in the int
\* range, then stored in v; otherwise it returns false and leaves v as it
\* was.
C35_ParseIntExact ==
    opts.pc = "returned" =>
        [ok |-> opts.ok, v |-> opts.v] =
            Expected(opts.s, opts.v_in, opts.allow_unit)

====
